---------------------------- MODULE Spec2Model ----------------------------
(***************************************************************************)
(* A model of apictl: the variable resolver (Applicator), the test runner  *)
(* (Test::execute), the request runner (Requests::Run) and the concurrent  *)
(* benchmark runner (Command::Benchmark).                                  *)
(*                                                                         *)
(* Rust Strings are modelled as sequences of one-character strings, so     *)
(* that scanning, splitting and trimming are computed and not assumed.     *)
(* A response body is modelled by the value serde_json parses it to (or    *)
(* NotJson when the parse fails); serde_json itself is a library.          *)
(***************************************************************************)
EXTENDS Integers, Sequences, FiniteSets, TLC

(***************************************************************************)
(* Characters                                                              *)
(***************************************************************************)
Digits == {"0", "1", "2", "3", "4", "5", "6", "7", "8", "9"}

Letters == {"a", "b", "c", "d", "e", "f", "g", "h", "i", "j", "k", "l",
            "m", "n", "o", "p", "q", "r", "s", "t", "u", "v", "w", "x", "y", "z",
            "A", "B", "C", "D", "E", "F", "G", "H", "I", "J", "K", "L",
            "M", "N", "O", "P", "Q", "R", "S", "T", "U", "V", "W", "X", "Y", "Z"}

\* \s of the placeholder pattern
IsWhitespace(c) == c \in {" ", "\t"}

\* [-.\w] of the placeholder pattern
IsIdentChar(c) == c \in Letters \cup Digits \cup {"_", "-", "."}

(***************************************************************************)
(* JSON values, as serde_json::Value                                       *)
(***************************************************************************)
NotJson == [t |-> "notjson"]

JStr(s) == [t |-> "str", v |-> s]

JNum(n) == [t |-> "num", v |-> n]

JArr(a) == [t |-> "arr", v |-> a]

JObj(o) == [t |-> "obj", v |-> o]

DigitOf(n) == CASE n = 0 -> "0" [] n = 1 -> "1" [] n = 2 -> "2" [] n = 3 -> "3"
                [] n = 4 -> "4" [] n = 5 -> "5" [] n = 6 -> "6" [] n = 7 -> "7"
                [] n = 8 -> "8" [] n = 9 -> "9"

ValueOfDigit(c) == CHOOSE n \in 0..9 : DigitOf(n) = c

RECURSIVE NatToString(_)
NatToString(n) == IF n < 10 THEN <<DigitOf(n)>>
                  ELSE NatToString(n \div 10) \o <<DigitOf(n % 10)>>

\* str::parse::<usize>: a non-empty run of decimal digits (an optional
\* leading "+" is accepted by Rust; "+" is not in the model's alphabet).
IsUsize(tok) == Len(tok) > 0 /\ \A i \in 1..Len(tok) : tok[i] \in Digits

RECURSIVE ParseUsize(_)
ParseUsize(tok) == IF Len(tok) = 0 THEN 0
                   ELSE 10 * ParseUsize(SubSeq(tok, 1, Len(tok) - 1))
                        + ValueOfDigit(tok[Len(tok)])

\* serde_json's escaping of a string's characters
RECURSIVE EscapeJson(_)
EscapeJson(s) == IF Len(s) = 0 THEN <<>>
                 ELSE (IF s[1] \in {"\"", "\\"} THEN <<"\\", s[1]>> ELSE <<s[1]>>)
                      \o EscapeJson(Tail(s))

\* Value::to_string() of a scalar; arrays and objects print their compact
\* JSON text, which the model abbreviates to its bracket pair.
ValueToString(val) ==
    CASE val.t = "str" -> <<"\"">> \o EscapeJson(val.v) \o <<"\"">>
      [] val.t = "num" -> NatToString(val.v)
      [] val.t = "arr" -> <<"[", "]">>
      [] val.t = "obj" -> <<"{", "}">>

\* In the operators below a value that is used more than once is bound
\* through a singleton set (t \in {s}): a bound variable holds a value, where
\* an operator argument or a LET definition is an expression that is computed
\* again at every use.
RECURSIVE TrimStartMatches(_, _)
TrimStartMatches(s, c) ==
    LET Trim(t) == IF Len(t) > 0 /\ t[1] = c
                   THEN TrimStartMatches(Tail(t), c) ELSE t
    IN  CHOOSE out \in {Trim(t) : t \in {s}} : TRUE

RECURSIVE TrimEndMatches(_, _)
TrimEndMatches(s, c) ==
    LET Trim(t) == IF Len(t) > 0 /\ t[Len(t)] = c
                   THEN TrimEndMatches(SubSeq(t, 1, Len(t) - 1), c) ELSE t
    IN  CHOOSE out \in {Trim(t) : t \in {s}} : TRUE

\* position of the first c in s at or after p, or Len(s) + 1
FindChar(s, c, p) ==
    CHOOSE q \in p..(Len(s) + 1) :
        /\ \A r \in p..(q - 1) : s[r] # c
        /\ q <= Len(s) => s[q] = c

\* str::split(c): the pieces between the occurrences of c (never empty)
RECURSIVE Split(_, _)
Split(s, c) ==
    LET Pieces(t) ==
            LET q == FindChar(t, c, 1)
            IN  IF q > Len(t) THEN <<t>>
                ELSE <<SubSeq(t, 1, q - 1)>> \o Split(SubSeq(t, q + 1, Len(t)), c)
    IN  CHOOSE out \in {Pieces(t) : t \in {s}} : TRUE

\* str::splitn(2, c)
SplitN2(s, c) == LET q == FindChar(s, c, 1)
                 IN  IF q > Len(s) THEN <<s>>
                     ELSE <<SubSeq(s, 1, q - 1), SubSeq(s, q + 1, Len(s))>>

None == [t |-> "none"]

Some(x) == [t |-> "some", v |-> x]

\* Value::get(index): a usize indexes arrays only, a string objects only
JsonGet(cur, tok) ==
    IF IsUsize(tok)
    THEN IF cur.t = "arr" /\ ParseUsize(tok) + 1 \in 1..Len(cur.v)
         THEN Some(cur.v[ParseUsize(tok) + 1]) ELSE None
    ELSE IF cur.t = "obj" /\ tok \in DOMAIN cur.v
         THEN Some(cur.v[tok]) ELSE None

RECURSIVE WalkPath(_, _)
WalkPath(cur, tokens) ==
    IF Len(tokens) = 0 THEN Some(cur)
    ELSE LET nxt == JsonGet(cur, tokens[1])
         IN  IF nxt = None THEN None ELSE WalkPath(nxt.v, Tail(tokens))

\* Response::find_path_in_body: parse the body, walk the dot path, print the
\* leaf and trim the quotes
FindPathInBody(response, path) ==
    IF response.body = NotJson THEN None
    ELSE LET Printed(leaf) ==
                 IF leaf = None THEN None
                 ELSE Some(TrimEndMatches(TrimStartMatches(ValueToString(leaf.v), "\""),
                                          "\""))
         IN  CHOOSE out \in {Printed(leaf) :
                                leaf \in {WalkPath(response.body, Split(path, "."))}} : TRUE

(***************************************************************************)
(* Applicator                                                              *)
(***************************************************************************)
\* Applicator::new
NewApplicator(context, responses) == [context |-> context, responses |-> responses]

\* a slip: an entry that is there is kept (entry().or_insert())
AddResponse_KeepsOld(app, name, response) ==
    [app EXCEPT !.responses =
        [n \in (DOMAIN app.responses) \cup {name} |->
            IF n \in DOMAIN app.responses THEN app.responses[n] ELSE response]]

\* Applicator::add_response: HashMap::insert
AddResponse(app, name, response) ==
    [app EXCEPT !.responses =
        [n \in (DOMAIN app.responses) \cup {name} |->
            IF n = name THEN response ELSE app.responses[n]]]

\* Applicator::find_response_data
FindResponseData(app, name) ==
    LET Data(tokens) ==
            IF Len(tokens) # 2 THEN None
            ELSE IF tokens[1] \notin DOMAIN app.responses THEN None
            ELSE FindPathInBody(app.responses[tokens[1]], tokens[2])
    IN  CHOOSE out \in {Data(tokens) : tokens \in {SplitN2(name, ".")}} : TRUE

\* a slip: \s? for \s*
SkipWhitespace_AtMostOne(s, p) == IF p <= Len(s) /\ IsWhitespace(s[p]) THEN p + 1 ELSE p

\* \s*: the end of the longest run of whitespace that starts at p
SkipWhitespace(s, p) ==
    CHOOSE q \in p..(Len(s) + 1) :
        /\ \A r \in p..(q - 1) : IsWhitespace(s[r])
        /\ q <= Len(s) => ~IsWhitespace(s[q])

\* [-.\w]+: the end of the longest run of name characters that starts at p
SkipIdent(s, p) ==
    CHOOSE q \in p..(Len(s) + 1) :
        /\ \A r \in p..(q - 1) : IsIdentChar(s[r])
        /\ q <= Len(s) => ~IsIdentChar(s[q])

\* a slip: the match ends before its closing brace
MatchAt_EndsBeforeBrace(s, p) ==
    IF p + 1 <= Len(s) /\ s[p] = "$" /\ s[p + 1] = "{"
    THEN LET q1 == SkipWhitespace(s, p + 2)
             q2 == SkipIdent(s, q1)
             q3 == SkipWhitespace(s, q2)
         IN  IF q2 > q1 /\ q3 <= Len(s) /\ s[q3] = "}"
             THEN [ok |-> TRUE, name |-> SubSeq(s, q1, q2 - 1), end |-> q3 - 1]
             ELSE [ok |-> FALSE]
    ELSE [ok |-> FALSE]

\* VARIABLE = \$\{\s*([-.\w]+)\s*\} anchored at position p
MatchAt(s, p) ==
    IF p + 1 <= Len(s) /\ s[p] = "$" /\ s[p + 1] = "{"
    THEN LET q1 == SkipWhitespace(s, p + 2)
             q2 == SkipIdent(s, q1)
             q3 == SkipWhitespace(s, q2)
         IN  IF q2 > q1 /\ q3 <= Len(s) /\ s[q3] = "}"
             THEN [ok |-> TRUE, name |-> SubSeq(s, q1, q2 - 1), end |-> q3]
             ELSE [ok |-> FALSE]
    ELSE [ok |-> FALSE]

StartsWith(s, prefix) ==
    Len(s) >= Len(prefix) /\ SubSeq(s, 1, Len(prefix)) = prefix

ResponsePrefix == <<"r", "e", "s", "p", "o", "n", "s", "e", ".">>

\* a slip: a name that resolves to nothing is left in place
Replacement_LeavesUnresolved(app, name) ==
    IF StartsWith(name, ResponsePrefix)
    THEN LET found == FindResponseData(app, SubSeq(name, 10, Len(name)))
         IN  IF found = None THEN <<"$", "{">> \o name \o <<"}">> ELSE found.v
    ELSE IF name \in DOMAIN app.context THEN app.context[name]
         ELSE <<"$", "{">> \o name \o <<"}">>

\* the replacement of one capture
Replacement(app, name) ==
    IF StartsWith(name, ResponsePrefix)
    THEN LET found == FindResponseData(app, SubSeq(name, 10, Len(name)))
         IN  IF found = None THEN <<>> ELSE found.v
    ELSE IF name \in DOMAIN app.context THEN app.context[name] ELSE <<>>

\* Applicator::apply: every match, left to right, replaced; the rest copied
RECURSIVE ApplyFrom(_, _, _)
ApplyFrom(app, s, p) ==
    IF p > Len(s) THEN <<>>
    ELSE LET Rest(m) ==
                 IF m.ok THEN Replacement(app, m.name) \o ApplyFrom(app, s, m.end + 1)
                 ELSE <<s[p]>> \o ApplyFrom(app, s, p + 1)
         IN  CHOOSE out \in {Rest(m) : m \in {MatchAt(s, p)}} : TRUE

Apply_Twice(app, s) == ApplyFrom(app, ApplyFrom(app, s, 1), 1)

Apply(app, s) == ApplyFrom(app, s, 1)

\* Config::find_response_data: the whole name is split at the dots, the first
\* token names the response and the others are walked through its body
ConfigFindResponseData(responses, name) ==
    LET Data(tokens) ==
            IF Len(tokens) < 2 THEN None
            ELSE IF tokens[1] \notin DOMAIN responses THEN None
            ELSE IF responses[tokens[1]].body = NotJson THEN None
            ELSE LET Printed(leaf) ==
                         IF leaf = None THEN None
                         ELSE Some(TrimEndMatches(
                                       TrimStartMatches(ValueToString(leaf.v), "\""),
                                       "\""))
                 IN  CHOOSE out \in {Printed(leaf) :
                                        leaf \in {WalkPath(responses[tokens[1]].body,
                                                           Tail(tokens))}} : TRUE
    IN  CHOOSE out \in {Data(tokens) : tokens \in {Split(name, ".")}} : TRUE

\* the replacement of one capture in Config::apply
ConfigReplacement(responses, cxt, name) ==
    IF StartsWith(name, ResponsePrefix)
    THEN LET found == ConfigFindResponseData(responses, SubSeq(name, 10, Len(name)))
         IN  IF found = None THEN <<>> ELSE found.v
    ELSE IF name \in DOMAIN cxt THEN cxt[name] ELSE <<>>

\* Config::apply
RECURSIVE ConfigApplyFrom(_, _, _, _)
ConfigApplyFrom(responses, cxt, s, p) ==
    IF p > Len(s) THEN <<>>
    ELSE LET Rest(m) ==
                 IF m.ok THEN ConfigReplacement(responses, cxt, m.name)
                              \o ConfigApplyFrom(responses, cxt, s, m.end + 1)
                 ELSE <<s[p]>> \o ConfigApplyFrom(responses, cxt, s, p + 1)
         IN  CHOOSE out \in {Rest(m) : m \in {MatchAt(s, p)}} : TRUE

ConfigApply(responses, cxt, s) == ConfigApplyFrom(responses, cxt, s, 1)

(***************************************************************************)
(* Requests                                                                *)
(***************************************************************************)
NoBody == [t |-> "none"]

\* Request::apply: every templated field resolved against the applicator
ApplyRequest(app, request) ==
    [request EXCEPT
        !.url = Apply(app, request.url),
        !.method = Apply(app, request.method),
        !.headers = [k \in DOMAIN request.headers |-> Apply(app, request.headers[k])],
        !.query_parameters = [k \in DOMAIN request.query_parameters |->
                                 Apply(app, request.query_parameters[k])],
        !.body = CASE request.body.t = "none" -> request.body
                   [] request.body.t = "form" ->
                        [request.body EXCEPT !.data =
                            [k \in DOMAIN request.body.data |-> Apply(app, request.body.data[k])]]
                   [] request.body.t = "raw" ->
                        [request.body EXCEPT !.from.v = Apply(app, request.body.from.v)]
                   [] request.body.t = "multipart" ->
                        [request.body EXCEPT !.data =
                            [k \in DOMAIN request.body.data |->
                                [request.body.data[k] EXCEPT !.v =
                                    Apply(app, request.body.data[k].v)]]]]

SupportedMethods == {<<"G", "E", "T">>, <<"P", "O", "S", "T">>, <<"P", "U", "T">>,
                     <<"D", "E", "L", "E", "T", "E">>}

\* Request::request up to the round trip: the method decides whether one is made
MethodSupported_AnyCase(request) ==
    request.method \in SupportedMethods \cup {<<"g", "e", "t">>}

MethodSupported(request) == request.method \in SupportedMethods

\* cfg.requests.get(name) hands out a reference, the caller clones the
\* request and calls apply on the clone: the configuration after that
AfterApply_InPlace(config, name, request) ==
    [config EXCEPT !.requests[name] = request]

AfterApply(config, name, request) == config

(***************************************************************************)
(* Assertions                                                              *)
(***************************************************************************)
EndsWith(s, suffix) ==
    Len(s) >= Len(suffix) /\ SubSeq(s, Len(s) - Len(suffix) + 1, Len(s)) = suffix

\* str::contains
ContainsStr(s, needle) ==
    \E i \in 1..(Len(s) - Len(needle) + 1) : SubSeq(s, i, i + Len(needle) - 1) = needle

\* Regex::new on the patterns of the model: a pattern of letters and digits
\* compiles and matches where it occurs; an unclosed group does not compile
RegexCompiles(pattern) == \A i \in 1..Len(pattern) : pattern[i] \in Letters \cup Digits

Ok == [t |-> "ok"]

Err(e) == [t |-> "err", e |-> e]

\* the comparison each body assertion makes on the value found at its key
BodyHolds(a, r) ==
    CASE a.type = "contains" -> ContainsStr(r, a.value)
      [] a.type = "equals" -> r = a.value
      [] a.type = "not_equals" -> r # a.value
      [] a.type = "has_prefix" -> StartsWith(r, a.value)
      [] a.type = "has_suffix" -> EndsWith(r, a.value)
      [] a.type = "regex" -> ContainsStr(r, a.value)

BodyReason(a) ==
    CASE a.type = "contains" -> "assert failed: body does not contain"
      [] a.type = "equals" -> "assert failed: body got, want"
      [] a.type = "not_equals" -> "assert failed: body did not want"
      [] a.type = "has_prefix" -> "assert failed: body does not have prefix"
      [] a.type = "has_suffix" -> "assert failed: body does not have suffix"
      [] a.type = "regex" -> "assert failed: body does not match regex"

\* a slip: not_equals passes when there is no value to compare
AssertExecute_NotEqualsPassesOnMissing(a, response) ==
    CASE a.type = "status_code" ->
            IF response.status_code # a.value
            THEN Err("assert failed: got status code, want value") ELSE Ok
      [] a.type = "header_contains" ->
            IF a.key \notin DOMAIN response.headers
            THEN Err("assert failed: header not found")
            ELSE IF ~ContainsStr(response.headers[a.key], a.value)
                 THEN Err("assert failed: header does not contain") ELSE Ok
      [] a.type = "header_equals" ->
            IF a.key \notin DOMAIN response.headers
            THEN Err("assert failed: header not found")
            ELSE IF response.headers[a.key] # a.value
                 THEN Err("assert failed: header got, want") ELSE Ok
      [] OTHER ->
            LET result == FindPathInBody(response, a.key)
            IN  IF result = None
                THEN (IF a.type = "not_equals" THEN Ok
                      ELSE Err("assert failed: key not found in request"))
                ELSE IF a.type = "regex" /\ ~RegexCompiles(a.value) THEN Err("regex error")
                ELSE IF ~BodyHolds(a, result.v) THEN Err(BodyReason(a)) ELSE Ok

\* Assert::execute
AssertExecute(a, response) ==
    CASE a.type = "status_code" ->
            IF response.status_code # a.value
            THEN Err("assert failed: got status code, want value") ELSE Ok
      [] a.type = "header_contains" ->
            IF a.key \notin DOMAIN response.headers
            THEN Err("assert failed: header not found")
            ELSE IF ~ContainsStr(response.headers[a.key], a.value)
                 THEN Err("assert failed: header does not contain") ELSE Ok
      [] a.type = "header_equals" ->
            IF a.key \notin DOMAIN response.headers
            THEN Err("assert failed: header not found")
            ELSE IF response.headers[a.key] # a.value
                 THEN Err("assert failed: header got, want") ELSE Ok
      [] OTHER ->
            LET result == FindPathInBody(response, a.key)
            IN  IF result = None THEN Err("assert failed: key not found in request")
                ELSE IF a.type = "regex" /\ ~RegexCompiles(a.value) THEN Err("regex error")
                ELSE IF ~BodyHolds(a, result.v) THEN Err(BodyReason(a)) ELSE Ok

\* Display for Assert: the name of the assertion's node
AssertName(a) ==
    IF a.type = "status_code"
    THEN <<"s", "t", "a", "t", "u", "s", "_", "c", "o", "d", "e", " ", "=", "=", " ">> \o NatToString(a.value)
    ELSE (CASE a.type = "header_contains" -> <<"h", "e", "a", "d", "e", "r", "_", "c", "o", "n", "t", "a", "i", "n", "s">>
            [] a.type = "header_equals" -> <<"h", "e", "a", "d", "e", "r", "_", "e", "q", "u", "a", "l", "s">>
            [] a.type = "contains" -> <<"c", "o", "n", "t", "a", "i", "n", "s">>
            [] a.type = "equals" -> <<"e", "q", "u", "a", "l", "s">>
            [] a.type = "not_equals" -> <<"n", "o", "t", "_", "e", "q", "u", "a", "l", "s">>
            [] a.type = "has_prefix" -> <<"h", "a", "s", "_", "p", "r", "e", "f", "i", "x">>
            [] a.type = "has_suffix" -> <<"h", "a", "s", "_", "s", "u", "f", "f", "i", "x">>
            [] a.type = "regex" -> <<"r", "e", "g", "e", "x">>)
         \o <<"(">> \o a.key \o <<",", " ">> \o a.value \o <<")">>

(***************************************************************************)
(* Result tree (TestResults)                                               *)
(***************************************************************************)
NotRun == [kind |-> "NotRun", reason |-> ""]

Running == [kind |-> "Running", reason |-> ""]

Passed == [kind |-> "Passed", reason |-> ""]

Failed(reason) == [kind |-> "Failed", reason |-> reason]

\* a slip: the steps get no children
NewTestResults_StepsOnly(name, t) ==
    [name |-> name, state |-> NotRun,
     children |-> [i \in 1..Len(t.steps) |->
        [name |-> t.steps[i].name, state |-> NotRun, children |-> <<>>]]]

\* TestResults::new: the skeleton of a test, every node NotRun
NewTestResults(name, t) ==
    [name |-> name, state |-> NotRun,
     children |-> [i \in 1..Len(t.steps) |->
        [name |-> t.steps[i].name, state |-> NotRun,
         children |-> [j \in 1..Len(t.steps[i].asserts) |->
            [name |-> AssertName(t.steps[i].asserts[j]), state |-> NotRun,
             children |-> <<>>]]]]]

\* TestResults::len
RECURSIVE TreeLen(_)
TreeLen(node) ==
    LET RECURSIVE Sum(_)
        Sum(i) == IF i = 0 THEN 0 ELSE TreeLen(node.children[i]) + Sum(i - 1)
    IN  1 + Sum(Len(node.children))

\* TestResults::complete: the node is set to Passed; the children are gone
\* through in order: at the first child whose state is Failed the node is set
\* to Failed and the loop is left, a child before that which has children is
\* itself completed
RECURSIVE Complete(_)
Complete(node) ==
    LET RECURSIVE Loop(_, _)
        Loop(n, i) ==
            IF i > Len(n.children) THEN n
            ELSE IF n.children[i].state.kind = "Failed"
            THEN [n EXCEPT !.state = Failed("dependent test failed")]
            ELSE IF Len(n.children[i].children) > 0
            THEN Loop([n EXCEPT !.children[i] = Complete(n.children[i])], i + 1)
            ELSE Loop(n, i + 1)
    IN  Loop([node EXCEPT !.state = Passed], 1)

\* the outcome of unwrap() on a child that is not there
Panic == [panic |-> TRUE]

\* a slip: at each level the last child of that name is taken
RECURSIVE Update_LastMatch(_, _, _)
Update_LastMatch(node, path, state) ==
    IF Len(path) = 1 /\ node.name = path[1]
    THEN [node EXCEPT !.state = state]
    ELSE IF Len(path) > 0 /\ node.name = path[1]
    THEN LET found == {i \in 1..Len(node.children) : node.children[i].name = path[2]}
         IN  IF found = {} THEN Panic
             ELSE LET i == CHOOSE k \in found : \A m \in found : k >= m
                      child == Update_LastMatch(node.children[i], Tail(path), state)
                  IN  IF child = Panic THEN Panic
                      ELSE [node EXCEPT !.children[i] = child]
    ELSE node

\* TestResults::update: the node is found by following names, at each level
\* the first child of that name
RECURSIVE Update(_, _, _)
Update(node, path, state) ==
    IF Len(path) = 1 /\ node.name = path[1]
    THEN [node EXCEPT !.state = state]
    ELSE IF Len(path) > 0 /\ node.name = path[1]
    THEN LET found == {i \in 1..Len(node.children) : node.children[i].name = path[2]}
         IN  IF found = {} THEN Panic
             ELSE LET i == CHOOSE k \in found : \A m \in found : k <= m
                      child == Update(node.children[i], Tail(path), state)
                  IN  IF child = Panic THEN Panic
                      ELSE [node EXCEPT !.children[i] = child]
    ELSE node

(***************************************************************************)
(* Configuration and inputs                                                *)
(***************************************************************************)
MaxSteps == 2

Str_a == <<"a">>

Str_b == <<"b">>

Str_c == <<"c">>

Str_z == <<"z">>

Str_id == <<"i", "d">>

\* Config.requests: "a" is a plain GET with a header from the context, "b"
\* takes its path from the response of "a", "c" has a method that is not one
\* of the four
ConfigRequests ==
    (Str_a :> [url |-> <<"/", "a">>, method |-> <<"G", "E", "T">>,
               headers |-> (<<"h">> :> <<"$", "{", " ", "u", " ", "}">>),
               query_parameters |-> <<>>, body |-> NoBody])
    @@
    (Str_b :> [url |-> <<"/", "$", "{", "r", "e", "s", "p", "o", "n", "s", "e", ".",
                         "a", ".", "i", "d", "}">>,
               method |-> <<"P", "U", "T">>,
               headers |-> <<>>, query_parameters |-> <<>>, body |-> NoBody])
    @@
    (Str_c :> [url |-> <<"/", "c">>, method |-> <<"P", "A", "T", "C", "H">>,
               headers |-> <<>>, query_parameters |-> <<>>, body |-> NoBody])

\* the names a step or a command line may give: "z" is not configured
RequestNames == {Str_a, Str_b, Str_c, Str_z}

Response200 == [status_code |-> 200, headers |-> (<<"k">> :> <<"v">>),
                body |-> JObj(Str_id :> JStr(<<"1">>))]

Response404 == [status_code |-> 404, headers |-> (<<"k">> :> <<"v">>),
                body |-> JObj(Str_id :> JStr(<<"2">>))]

\* the replies of the server
ResponsePool == {Response200, Response404}

\* Config.responses: the responses loaded from the cache directory
ConfigResponses ==
    (Str_a :> [status_code |-> 200, headers |-> <<>>,
               body |-> JObj(Str_id :> JStr(<<"0">>))])

\* the merged context of the command line
Context == (<<"u">> :> <<"x">>)

AssertStatus == [type |-> "status_code", value |-> 200]

AssertHeader == [type |-> "header_equals", key |-> <<"k">>, value |-> <<"v">>]

AssertBody == [type |-> "not_equals", key |-> Str_id, value |-> <<"0">>]

\* the assertion lists a step may carry
AssertLists == {<<>>, <<AssertStatus>>, <<AssertHeader, AssertStatus, AssertBody>>,
                <<AssertStatus, AssertStatus>>}

StepNames == {<<"s">>, <<"t">>}

TestName == <<"T">>

Steps == [name : StepNames, request : RequestNames, asserts : AssertLists]

RECURSIVE SeqsUpTo(_, _)
SeqsUpTo(S, n) ==
    IF n = 0 THEN {<<>>}
    ELSE LET shorter == SeqsUpTo(S, n - 1)
         IN  shorter \cup {Append(q, x) : q \in {r \in shorter : Len(r) = n - 1}, x \in S}

\* the tests of the configuration: up to MaxSteps steps
Tests == [steps : SeqsUpTo(Steps, MaxSteps)]

(***************************************************************************)
(* State                                                                   *)
(***************************************************************************)
VARIABLES
    command,    \* the subcommand: "test", "requests" or "benchmark"
    test,       \* Test::execute: self
    requests,   \* the request names of the command line (request run, benchmark)
    results,    \* Test::execute: results
    screen,     \* what the terminal shows
    names,      \* Test::execute: names
    app,        \* the Applicator of the test run or request run
    pc,         \* position of the test run or request run
    step,       \* index of the step (test) or request (request run) in hand
    assert,     \* index of the assertion in hand
    resp,       \* Test::execute: resp
    err,        \* the error the command returned
    inflight,   \* the HTTP calls awaiting their reply
    log,        \* history: the calls sent, the replies and the assertions, in order
    cache,      \* the response files of the cache directory
    number,     \* benchmark: total iterations (-n)
    parallel,   \* benchmark: worker count (-p)
    count,      \* benchmark: the shared AtomicUsize
    wpc,        \* benchmark: position of each worker
    wi,         \* benchmark: the index i each worker claimed
    wr,         \* benchmark: each worker's place in the request list
    wapp,       \* benchmark: each worker's Applicator
    wout,       \* benchmark: the results of run_request in the worker's iteration
    status_codes,   \* benchmark: Mutex<HashMap<u16, count>>
    durations,      \* benchmark: Mutex<Vec<Duration>>
    bar,            \* benchmark: position of the progress bar
    lock_status,    \* benchmark: holder of the status_codes mutex (0: free)
    lock_durations, \* benchmark: holder of the durations mutex (0: free)
    started,    \* history: how often the request list was started for an index
    finished,   \* history: how often it was finished
    tally,      \* history: the calls of run_request and the replies received
    input,      \* a call of a function on its own: the arguments
    output,     \* a call of a function on its own: what it returned
    cfg         \* Config: the request templates of the configuration

seqVars == <<test, results, screen, names, app, step, assert, resp, log, cache>>

benchVars == <<number, parallel, count, wpc, wi, wr, wapp, wout, status_codes, durations,
               bar, lock_status, lock_durations, started, finished, tally>>

callVars == <<input, output>>

cfgVars == <<cfg>>

vars == <<command, requests, pc, err, inflight, seqVars, benchVars, callVars, cfgVars>>

NoResults == [none |-> TRUE]

Blank == [blank |-> TRUE]

NoResponse == [none |-> TRUE]

NoApplicator == [none |-> TRUE]

\* the outcomes of one HTTP round trip: a reply of the server, or an error
\* of the transport or of Response::from
HttpOutcomes == {[t |-> "ok", v |-> r] : r \in ResponsePool}
                \cup {[t |-> "err", v |-> NoResponse]}

Event(op, k, j, data) == [op |-> op, step |-> k, index |-> j, data |-> data]

MaxRequests == 2

MaxNumber == 2

MaxParallel == 2

\* the status codes of the replies
StatusCodes == {r.status_code : r \in ResponsePool}

\* what now.elapsed() may measure, in nanoseconds
Elapsed == {1, 20}

NoInput == [none |-> TRUE]

NoOutput == [none |-> TRUE]

\* no function is called on its own
CallIdle == input = NoInput /\ output = NoOutput

\* the benchmark's state while another command runs
BenchIdle ==
    /\ number = 0
    /\ parallel = 0
    /\ count = 0
    /\ wpc = <<>>
    /\ wi = <<>>
    /\ wr = <<>>
    /\ wapp = <<>>
    /\ wout = <<>>
    /\ status_codes = [c \in StatusCodes |-> 0]
    /\ durations = <<>>
    /\ bar = 0
    /\ lock_status = 0
    /\ lock_durations = 0
    /\ started = <<>>
    /\ finished = <<>>
    /\ tally = [calls |-> 0, replies |-> 0]
    /\ CallIdle

(***************************************************************************)
(* Test::execute                                                           *)
(***************************************************************************)
TestInit ==
    /\ command = "test"
    /\ test \in Tests
    /\ requests = <<>>
    /\ results = NoResults
    /\ screen = Blank
    /\ names = <<>>
    /\ app = NoApplicator
    /\ pc = "begin"
    /\ step = 0
    /\ assert = 0
    /\ resp = NoResponse
    /\ err = ""
    /\ inflight = {}
    /\ log = <<>>
    /\ cache = ConfigResponses
    /\ cfg = [requests |-> ConfigRequests]
    /\ BenchIdle

\* a slip: the error is returned and the tree is kept
Abort_KeepsTree(e) ==
    /\ pc' = "err"
    /\ err' = e
    /\ UNCHANGED results

\* return Err(e), by `return` or by `?`: the error is the result of the run
\* and the tree built so far is dropped
Abort(e) ==
    /\ pc' = "err"
    /\ err' = e
    /\ results' = NoResults

\* a slip: the tree is kept and the terminal is left as it was
Draw_NoRefresh(tree, next) ==
    /\ results' = tree
    /\ pc' = next
    /\ UNCHANGED <<err, screen>>

\* TestResults::print / TestResults::output of tree, then on to position next
Draw(tree, next) ==
    \/ /\ results' = tree
       /\ screen' = tree
       /\ pc' = next
       /\ UNCHANGED err
    \/ /\ Abort("TerminalError")
       /\ UNCHANGED screen

\* lines 187-191: the skeleton, its first print, names and the applicator
TestBegin ==
    /\ command = "test"
    /\ pc = "begin"
    /\ Draw(NewTestResults(TestName, test), "step")
    /\ names' = <<TestName>>
    /\ app' = NewApplicator(Context, ConfigResponses)
    /\ step' = 1
    /\ UNCHANGED <<benchVars, callVars, cfgVars>>
    /\ UNCHANGED <<cache, command, test, requests, assert, resp, inflight, log>>

\* lines 192-203: the step's request is looked up, rendered and sent
StepBegin ==
    /\ command = "test"
    /\ pc = "step"
    /\ step <= Len(test.steps)
    /\ LET s == test.steps[step]
       IN  /\ names' = Append(names, s.name)
           /\ IF s.request \notin DOMAIN cfg.requests
              THEN /\ Abort("RequestNotFound")
                   /\ UNCHANGED <<inflight, log, cfg>>
              ELSE LET request == ApplyRequest(app, cfg.requests[s.request])
                   IN  /\ cfg' = AfterApply(cfg, s.request, request)
                       /\ IF ~MethodSupported(request)
                          THEN /\ Abort("RequestError")
                               /\ UNCHANGED <<inflight, log>>
                          ELSE /\ pc' = "await"
                               /\ inflight' = inflight \cup
                                     {[by |-> 0, name |-> s.request, request |-> request]}
                               /\ log' = Append(log, Event("send", step, 0, request))
                               /\ UNCHANGED <<err, results>>
    /\ UNCHANGED <<benchVars, callVars>>
    /\ UNCHANGED <<cache, command, test, requests, screen, app, step, assert, resp>>

\* lines 203-205: the reply arrives; an error is returned, a response is stored
HttpReturn ==
    /\ command = "test"
    /\ pc = "await"
    /\ \E call \in inflight, outcome \in HttpOutcomes :
        /\ inflight' = inflight \ {call}
        /\ IF outcome.t = "err"
           THEN /\ Abort("RequestError")
                /\ UNCHANGED <<app, resp, assert, log>>
           ELSE /\ resp' = outcome.v
                /\ app' = AddResponse(app, test.steps[step].request, outcome.v)
                /\ assert' = 1
                /\ pc' = "assert"
                /\ log' = Append(log, Event("recv", step, 0, outcome.v))
                /\ UNCHANGED <<err, results>>
    /\ UNCHANGED <<benchVars, callVars, cfgVars>>
    /\ UNCHANGED <<cache, command, test, requests, screen, names, step>>

\* a slip: every evaluated assertion is recorded as passed
LeafState_AlwaysPassed(outcome) == Passed

\* lines 209-212: the state an assertion's outcome gives its node
\* a slip: a failed assertion is left running
LeafState_LeftRunning(outcome) == IF outcome = Ok THEN Passed ELSE Running

LeafState(outcome) == IF outcome = Ok THEN Passed ELSE Failed(outcome.e)

\* a slip: the loop over the assertions ends one early
AssertsDone_OneEarly == assert >= Len(test.steps[step].asserts)

\* line 207: the for loop over the step's assertions has run out
AssertsDone == assert > Len(test.steps[step].asserts)

\* lines 207-216: one assertion is evaluated, recorded and the tree redrawn
AssertStep ==
    /\ command = "test"
    /\ pc = "assert"
    /\ ~AssertsDone
    /\ LET a == test.steps[step].asserts[assert]
           outcome == AssertExecute(a, resp)
           state == LeafState(outcome)
           tree == Update(results, Append(names, AssertName(a)), state)
       IN  IF tree = Panic
           THEN /\ pc' = "panic"
                /\ UNCHANGED <<results, screen, err, assert, log>>
           ELSE /\ Draw(tree, "assert")
                /\ assert' = assert + 1
                /\ log' = Append(log, Event("assert", step, assert, outcome))
    /\ UNCHANGED <<benchVars, callVars, cfgVars>>
    /\ UNCHANGED <<cache, command, test, requests, names, app, step, resp, inflight>>

\* lines 217-219: the step's node is set, the tree redrawn, the name popped
StepEnd ==
    /\ command = "test"
    /\ pc = "assert"
    /\ AssertsDone
    /\ Draw(Update(results, names, Passed), "step")
    /\ names' = SubSeq(names, 1, Len(names) - 1)
    /\ step' = step + 1
    /\ UNCHANGED <<benchVars, callVars, cfgVars>>
    /\ UNCHANGED <<cache, command, test, requests, app, assert, resp, inflight, log>>

\* lines 221-223: the root is set, the tree redrawn and returned
TestFinish ==
    /\ command = "test"
    /\ pc = "step"
    /\ step > Len(test.steps)
    /\ Draw([results EXCEPT !.state = Passed], "ok")
    /\ UNCHANGED <<benchVars, callVars, cfgVars>>
    /\ UNCHANGED <<cache, command, test, requests, names, app, step, assert, resp, inflight, log>>

TestNext == TestBegin \/ StepBegin \/ HttpReturn \/ AssertStep \/ StepEnd \/ TestFinish

SpecTest == TestInit /\ [][TestNext]_vars


(***************************************************************************)
(* Requests::Run (main)                                                    *)
(***************************************************************************)
NoTest == [steps |-> <<>>]

RunInit ==
    /\ command = "requests"
    /\ requests \in SeqsUpTo(RequestNames, MaxRequests)
    /\ test = NoTest
    /\ results = NoResults
    /\ screen = Blank
    /\ names = <<>>
    /\ app = NoApplicator
    /\ pc = "begin"
    /\ step = 0
    /\ assert = 0
    /\ resp = NoResponse
    /\ err = ""
    /\ inflight = {}
    /\ log = <<>>
    /\ cache = ConfigResponses
    /\ cfg = [requests |-> ConfigRequests]
    /\ BenchIdle

\* lines 179-180: the applicator takes the context and the loaded responses
RunBegin ==
    /\ command = "requests"
    /\ pc = "begin"
    /\ app' = NewApplicator(Context, ConfigResponses)
    /\ step' = 1
    /\ pc' = "step"
    /\ UNCHANGED <<benchVars, callVars, cfgVars>>
    /\ UNCHANGED <<command, requests, err, inflight, test, results, screen, names,
                   assert, resp, log, cache>>

\* lines 182-193: the request is looked up, rendered and sent
RunSend ==
    /\ command = "requests"
    /\ pc = "step"
    /\ step <= Len(requests)
    /\ IF requests[step] \notin DOMAIN cfg.requests
       THEN /\ Abort("RequestNotFound")
            /\ UNCHANGED <<inflight, log, cfg>>
       ELSE LET request == ApplyRequest(app, cfg.requests[requests[step]])
            IN  /\ cfg' = AfterApply(cfg, requests[step], request)
                /\ IF ~MethodSupported(request)
                   THEN /\ Abort("RequestError")
                        /\ UNCHANGED <<inflight, log>>
                   ELSE /\ pc' = "await"
                        /\ inflight' = inflight \cup
                              {[by |-> 0, name |-> requests[step], request |-> request]}
                        /\ log' = Append(log, Event("send", step, 0, request))
                        /\ UNCHANGED <<err, results>>
    /\ UNCHANGED <<benchVars, callVars>>
    /\ UNCHANGED <<command, requests, test, screen, names, app, step, assert, resp, cache>>

\* lines 193-207: the reply is saved to the cache, printed and stored
RunReturn ==
    /\ command = "requests"
    /\ pc = "await"
    /\ \E call \in inflight, outcome \in HttpOutcomes :
        /\ inflight' = inflight \ {call}
        /\ IF outcome.t = "err"
           THEN /\ Abort("RequestError")
                /\ UNCHANGED <<app, resp, step, log, cache>>
           ELSE /\ resp' = outcome.v
                /\ log' = Append(log, Event("recv", step, 0, outcome.v))
                /\ \/ /\ cache' = [n \in (DOMAIN cache) \cup {requests[step]} |->
                                      IF n = requests[step] THEN outcome.v ELSE cache[n]]
                      /\ app' = AddResponse(app, requests[step], outcome.v)
                      /\ step' = step + 1
                      /\ pc' = "step"
                      /\ UNCHANGED <<err, results>>
                   \/ /\ Abort("Io")
                      /\ UNCHANGED <<app, step, cache>>
    /\ UNCHANGED <<benchVars, callVars, cfgVars>>
    /\ UNCHANGED <<command, requests, test, screen, names, assert>>

\* line 368: every request ran
RunFinish ==
    /\ command = "requests"
    /\ pc = "step"
    /\ step > Len(requests)
    /\ pc' = "ok"
    /\ UNCHANGED <<benchVars, callVars, cfgVars>>
    /\ UNCHANGED <<command, requests, err, inflight, seqVars>>

RunNext == RunBegin \/ RunSend \/ RunReturn \/ RunFinish

\* the two commands that run requests one after the other
SpecSequential == (TestInit \/ RunInit) /\ [][TestNext \/ RunNext]_vars

(***************************************************************************)
(* Command::Benchmark (main)                                               *)
(***************************************************************************)
Workers == 1..parallel

BenchInit ==
    /\ command = "benchmark"
    /\ requests \in SeqsUpTo(RequestNames, MaxRequests)
    /\ number \in 0..MaxNumber
    /\ parallel \in 1..MaxParallel
    /\ count = 0
    /\ wpc = [w \in 1..parallel |-> "claim"]
    /\ wi = [w \in 1..parallel |-> 0]
    /\ wr = [w \in 1..parallel |-> 0]
    /\ wapp = [w \in 1..parallel |-> NoApplicator]
    /\ wout = [w \in 1..parallel |-> <<>>]
    /\ status_codes = [c \in StatusCodes |-> 0]
    /\ durations = <<>>
    /\ bar = 0
    /\ lock_status = 0
    /\ lock_durations = 0
    /\ started = <<>>
    /\ finished = <<>>
    /\ tally = [calls |-> 0, replies |-> 0]
    /\ pc = "join"
    /\ err = ""
    /\ inflight = {}
    /\ test = NoTest
    /\ results = NoResults
    /\ screen = Blank
    /\ names = <<>>
    /\ app = NoApplicator
    /\ step = 0
    /\ assert = 0
    /\ resp = NoResponse
    /\ log = <<>>
    /\ cache = ConfigResponses
    /\ cfg = [requests |-> ConfigRequests]
    /\ CallIdle

\* what no worker task touches
WorkerFrame ==
    UNCHANGED <<command, requests, pc, err, seqVars, number, parallel, callVars, cfgVars>>

\* one more in the count kept for index k
CountOne(f, k) ==
    [x \in (DOMAIN f) \cup {k} |->
        (IF x \in DOMAIN f THEN f[x] ELSE 0) + (IF x = k THEN 1 ELSE 0)]

\* a slip: the value after the addition is taken for the index
ClaimedIndex_AfterAdd(c) == c + 1

\* line 274: fetch_add returns the value before the addition
ClaimedIndex(c) == c

\* line 275: the claim that ends the worker
ClaimExits(i) == i >= number

\* lines 274-278: the worker claims an index; it returns, or starts on the list
Claim(w) ==
    /\ w \in Workers
    /\ wpc[w] = "claim"
    /\ WorkerFrame
    /\ count' = count + 1
    /\ LET i == ClaimedIndex(count)
       IN  IF ClaimExits(i)
           THEN /\ wpc' = [wpc EXCEPT ![w] = "exited"]
                /\ UNCHANGED <<wi, wr, wapp, wout, started>>
           ELSE /\ wpc' = [wpc EXCEPT ![w] = "request"]
                /\ wi' = [wi EXCEPT ![w] = i]
                /\ wr' = [wr EXCEPT ![w] = 1]
                /\ wapp' = [wapp EXCEPT ![w] = NewApplicator(Context, ConfigResponses)]
                /\ wout' = [wout EXCEPT ![w] = <<>>]
                /\ started' = CountOne(started, i)
    /\ UNCHANGED <<inflight, status_codes, durations, bar, lock_status, lock_durations,
                   finished, tally>>

\* a slip: the task returns on the first error
CallFailed_Stops(w) ==
    /\ wout' = [wout EXCEPT ![w] = Append(@, Err("error"))]
    /\ wpc' = [wpc EXCEPT ![w] = "exited"]
    /\ UNCHANGED wr

\* lines 289-291: run_request failed; the error is printed, the loop goes on
CallFailed(w) ==
    /\ wout' = [wout EXCEPT ![w] = Append(@, Err("error"))]
    /\ wr' = [wr EXCEPT ![w] = @ + 1]
    /\ wpc' = [wpc EXCEPT ![w] = "request"]

\* lines 280-282 and run_request: the next request of the list is looked up,
\* rendered against the worker's applicator and sent
BenchRequest(w) ==
    /\ w \in Workers
    /\ wpc[w] = "request"
    /\ UNCHANGED <<command, requests, pc, err, seqVars, number, parallel, callVars>>
    /\ wr[w] <= Len(requests)
    /\ tally' = [tally EXCEPT !.calls = @ + 1]
    /\ LET name == requests[wr[w]]
       IN  IF name \notin DOMAIN cfg.requests
           THEN CallFailed(w) /\ UNCHANGED <<inflight, cfg>>
           ELSE LET request == ApplyRequest(wapp[w], cfg.requests[name])
                IN  /\ cfg' = AfterApply(cfg, name, request)
                    /\ IF ~MethodSupported(request)
                       THEN CallFailed(w) /\ UNCHANGED inflight
                       ELSE /\ inflight' = inflight \cup
                                  {[by |-> w, name |-> name, request |-> request]}
                            /\ wpc' = [wpc EXCEPT ![w] = "await"]
                            /\ UNCHANGED <<wr, wout>>
    /\ UNCHANGED <<count, wi, wapp, status_codes, durations, bar, lock_status,
                   lock_durations, started, finished>>

\* line 282: the call of the worker returns
BenchReturn(w) ==
    /\ w \in Workers
    /\ wpc[w] = "await"
    /\ WorkerFrame
    /\ \E call \in {c \in inflight : c.by = w}, outcome \in HttpOutcomes :
        /\ inflight' = inflight \ {call}
        /\ IF outcome.t = "err"
           THEN CallFailed(w) /\ UNCHANGED tally
           ELSE /\ wout' = [wout EXCEPT ![w] = Append(@, outcome)]
                /\ wpc' = [wpc EXCEPT ![w] = "lock_status"]
                /\ tally' = [tally EXCEPT !.replies = @ + 1]
                /\ UNCHANGED wr
    /\ UNCHANGED <<count, wi, wapp, status_codes, durations, bar, lock_status,
                   lock_durations, started, finished>>

\* lines 284-285: the status-code lock is taken and the code counted
LockStatus(w) ==
    /\ w \in Workers
    /\ wpc[w] = "lock_status"
    /\ WorkerFrame
    /\ lock_status = 0
    /\ lock_status' = w
    /\ status_codes' = [status_codes EXCEPT ![wout[w][Len(wout[w])].v.status_code] = @ + 1]
    /\ wpc' = [wpc EXCEPT ![w] = "lock_durations"]
    /\ UNCHANGED <<count, wi, wr, wapp, wout, inflight, durations, bar, lock_durations,
                   started, finished, tally>>

\* lines 286-287: the duration lock is taken and the elapsed time pushed
LockDurations(w) ==
    /\ w \in Workers
    /\ wpc[w] = "lock_durations"
    /\ WorkerFrame
    /\ lock_durations = 0
    /\ lock_durations' = w
    /\ \E d \in Elapsed : durations' = Append(durations, d)
    /\ wpc' = [wpc EXCEPT ![w] = "unlock"]
    /\ UNCHANGED <<count, wi, wr, wapp, wout, inflight, status_codes, bar, lock_status,
                   started, finished, tally>>

\* a slip: the status-code guard outlives the arm
Unlock_KeepsStatusGuard(w) ==
    /\ w \in Workers
    /\ wpc[w] = "unlock"
    /\ WorkerFrame
    /\ lock_durations' = 0
    /\ wr' = [wr EXCEPT ![w] = @ + 1]
    /\ wpc' = [wpc EXCEPT ![w] = "request"]
    /\ UNCHANGED <<count, wi, wapp, wout, inflight, status_codes, durations, bar,
                   lock_status, started, finished, tally>>

\* a slip: the duration guard outlives the arm
Unlock_KeepsDurationsGuard(w) ==
    /\ w \in Workers
    /\ wpc[w] = "unlock"
    /\ WorkerFrame
    /\ lock_status' = 0
    /\ wr' = [wr EXCEPT ![w] = @ + 1]
    /\ wpc' = [wpc EXCEPT ![w] = "request"]
    /\ UNCHANGED <<count, wi, wapp, wout, inflight, status_codes, durations, bar,
                   lock_durations, started, finished, tally>>

\* line 288: the arm ends, both guards are dropped
Unlock(w) ==
    /\ w \in Workers
    /\ wpc[w] = "unlock"
    /\ WorkerFrame
    /\ lock_status' = 0
    /\ lock_durations' = 0
    /\ wr' = [wr EXCEPT ![w] = @ + 1]
    /\ wpc' = [wpc EXCEPT ![w] = "request"]
    /\ UNCHANGED <<count, wi, wapp, wout, inflight, status_codes, durations, bar,
                   started, finished, tally>>

\* line 294: the list is through; the bar is locked, advanced and released
BarInc(w) ==
    /\ w \in Workers
    /\ wpc[w] = "request"
    /\ WorkerFrame
    /\ wr[w] > Len(requests)
    /\ bar' = bar + 1
    /\ finished' = CountOne(finished, wi[w])
    /\ wpc' = [wpc EXCEPT ![w] = "claim"]
    /\ UNCHANGED <<count, wi, wr, wapp, wout, inflight, status_codes, durations,
                   lock_status, lock_durations, started, tally>>

\* a slip: only the first handle is awaited
Joined_FirstOnly == wpc[1] = "exited"

\* lines 300-302: every handle has been awaited
Joined == \A w \in Workers : wpc[w] = "exited"

Join ==
    /\ command = "benchmark"
    /\ pc = "join"
    /\ Joined
    /\ pc' = "report"
    /\ UNCHANGED <<command, requests, err, inflight, seqVars, benchVars, callVars, cfgVars>>

Max(S) == CHOOSE x \in S : \A y \in S : y <= x

Min(S) == CHOOSE x \in S : \A y \in S : x <= y

\* the reporting pass divides by number * benchmarks.len() (line 317), unwraps
\* the minimum of the durations (line 332) and divides by the bin size
\* (line 378)
ReportPanics ==
    \/ number * Len(requests) = 0
    \/ durations = <<>>
    \/ LET ds == {durations[i] : i \in 1..Len(durations)}
       IN  (Max(ds) - Min(ds)) \div 10 = 0

\* lines 304-364: the locks are taken in turn and the statistics printed
Report ==
    /\ command = "benchmark"
    /\ pc = "report"
    /\ lock_status = 0
    /\ lock_durations = 0
    /\ pc' = IF ReportPanics THEN "panic" ELSE "ok"
    /\ UNCHANGED <<command, requests, err, inflight, seqVars, benchVars, callVars, cfgVars>>

BenchNext ==
    \/ \E w \in 1..MaxParallel : Claim(w)
    \/ \E w \in 1..MaxParallel : BenchRequest(w)
    \/ \E w \in 1..MaxParallel : BenchReturn(w)
    \/ \E w \in 1..MaxParallel : LockStatus(w)
    \/ \E w \in 1..MaxParallel : LockDurations(w)
    \/ \E w \in 1..MaxParallel : Unlock(w)
    \/ \E w \in 1..MaxParallel : BarInc(w)
    \/ Join
    \/ Report

SpecBench == BenchInit /\ [][BenchNext]_vars

\* the steps of worker w other than the return of its call
WorkerRuns(w) ==
    \/ Claim(w)
    \/ BenchRequest(w)
    \/ LockStatus(w)
    \/ LockDurations(w)
    \/ Unlock(w)
    \/ BarInc(w)

\* every task that can run does run, and every call returns
FairSpecBench ==
    /\ SpecBench
    /\ \A w \in 1..MaxParallel : WF_vars(WorkerRuns(w) \/ BenchReturn(w))
    /\ WF_vars(Join \/ Report)

\* every task that can run does run, but a call may never return
FairSpecHung ==
    /\ SpecBench
    /\ \A w \in 1..MaxParallel : WF_vars(WorkerRuns(w))
    /\ WF_vars(Join \/ Report)

\* the three commands that execute requests
SpecCommands ==
    (TestInit \/ RunInit \/ BenchInit) /\ [][TestNext \/ RunNext \/ BenchNext]_vars

(***************************************************************************)
(* The resolver called on its own (Applicator::apply, Config::apply)       *)
(***************************************************************************)
MaxPieces == 2

\* a template is a row of pieces: literal text, or a placeholder written
\* with whitespace left and right of its name
Piece(kind, text, left, name, right) ==
    [kind |-> kind, text |-> text, left |-> left, name |-> name, right |-> right]

Lit(text) == Piece("lit", text, <<>>, <<>>, <<>>)

\* literal text; none of it, however put together, makes a placeholder
Lits ==
    {Lit(<<"H">>), Lit(<<" ">>), Lit(<<"$">>), Lit(<<"}">>), Lit(<<"{", "!">>),
     Lit(<<"$", "{", "a", " ", "b", "}">>)}

Str_response == ResponsePrefix

Name_u == <<"u">>

Name_e == <<"e">>

Name_v == <<"v">>

Name_dashed == <<"a", "-", "b", ".", "_", "1">>

\* the names of the placeholders: context names, and response paths
ContextNames == {Name_u, Name_e, Name_v, Name_dashed}

ResponsePaths ==
    {<<>>, <<"r">>, <<"r", ".">>, <<"r", ".", "a", ".", "b">>, <<"r", ".", "a", ".", "c">>,
     <<"r", ".", "l", ".", "1">>, <<"r", ".", "l", ".", "2">>, <<"r", ".", "l", ".", "b">>,
     <<"r", ".", "0">>, <<"r", ".", "n">>, <<"r", ".", "q">>, <<"r", ".", "p">>,
     <<"r", ".", "a", ".", "b", ".", "c">>, <<"t", ".", "a">>, <<"z", ".", "a">>}

PieceNames == ContextNames \cup {Str_response \o path : path \in ResponsePaths}

\* the whitespace written left and right of a name
Spacings == {<<<<" ">>, <<"\t", " ">>>>, <<<<"\t">>, <<>>>>, <<<<>>, <<" ">>>>}

\* the names that are also written with whitespace
SpacedNames == {Name_u, Name_v, Name_dashed, Str_response \o <<"r", ".", "a", ".", "b">>}

Vars ==
    {Piece("var", <<>>, <<>>, name, <<>>) : name \in PieceNames}
    \cup {Piece("var", <<>>, sp[1], name, sp[2]) : sp \in Spacings, name \in SpacedNames}

Pieces == Lits \cup Vars

Templates == SeqsUpTo(Pieces, MaxPieces)

\* the text of a piece as it stands in the template
PieceText(p) ==
    IF p.kind = "lit" THEN p.text
    ELSE <<"$", "{">> \o p.left \o p.name \o p.right \o <<"}">>

RECURSIVE Text(_)
Text(pieces) ==
    IF pieces = <<>> THEN <<>> ELSE PieceText(Head(pieces)) \o Text(Tail(pieces))

\* the body of response "r" of the inputs:
\* {"a":{"b":"x"},"l":["p","q"],"0":"z","n":7,"q":"\"","p":"${u}"}
BodyR ==
    JObj((<<"a">> :> JObj(<<"b">> :> JStr(<<"x">>)))
         @@ (<<"l">> :> JArr(<<JStr(<<"p">>), JStr(<<"q">>)>>))
         @@ (<<"0">> :> JStr(<<"z">>))
         @@ (<<"n">> :> JNum(7))
         @@ (<<"q">> :> JStr(<<"\"">>))
         @@ (<<"p">> :> JStr(<<"$", "{", "u", "}">>)))

\* a context and a response store: "e" holds placeholder text, "v" and the
\* dashed name are not defined, response "t" is not JSON, "z" is not stored
FullEnv ==
    [context |-> (Name_u :> <<"x">>) @@ (Name_e :> <<"$", "{", "u", "}">>),
     responses |-> (<<"r">> :> [status_code |-> 200, headers |-> <<>>, body |-> BodyR])
                   @@ (<<"t">> :> [status_code |-> 200, headers |-> <<>>,
                                   body |-> NotJson])]

EmptyEnv == [context |-> <<>>, responses |-> <<>>]

Envs == {FullEnv, EmptyEnv}

Resolvers == {"Applicator::apply", "Config::apply"}

\* the state of the commands while a function is called on its own
CommandsIdle ==
    /\ requests = <<>>
    /\ test = NoTest
    /\ results = NoResults
    /\ screen = Blank
    /\ names = <<>>
    /\ app = NoApplicator
    /\ pc = "call"
    /\ step = 0
    /\ assert = 0
    /\ resp = NoResponse
    /\ err = ""
    /\ inflight = {}
    /\ log = <<>>
    /\ cache = <<>>
    /\ cfg = [requests |-> ConfigRequests]
    /\ number = 0
    /\ parallel = 0
    /\ count = 0
    /\ wpc = <<>>
    /\ wi = <<>>
    /\ wr = <<>>
    /\ wapp = <<>>
    /\ wout = <<>>
    /\ status_codes = [c \in StatusCodes |-> 0]
    /\ durations = <<>>
    /\ bar = 0
    /\ lock_status = 0
    /\ lock_durations = 0
    /\ started = <<>>
    /\ finished = <<>>
    /\ tally = [calls |-> 0, replies |-> 0]

CallFrame ==
    UNCHANGED <<command, requests, pc, err, inflight, seqVars, benchVars, input, cfgVars>>

ApplyInit ==
    /\ command = "apply"
    /\ input \in [fn : Resolvers, pieces : Templates, env : Envs]
    /\ output = NoOutput
    /\ CommandsIdle

\* Applicator::apply(&self, s)
ApplicatorApplyCall ==
    /\ command = "apply"
    /\ input.fn = "Applicator::apply"
    /\ output = NoOutput
    /\ output' = Some(Apply(NewApplicator(input.env.context, input.env.responses),
                            Text(input.pieces)))
    /\ CallFrame

\* Config::apply(&self, cxt, s)
ConfigApplyCall ==
    /\ command = "apply"
    /\ input.fn = "Config::apply"
    /\ output = NoOutput
    /\ output' = Some(ConfigApply(input.env.responses, input.env.context,
                                  Text(input.pieces)))
    /\ CallFrame

ApplyNext == ApplicatorApplyCall \/ ConfigApplyCall

SpecApply == ApplyInit /\ [][ApplyNext]_vars

(***************************************************************************)
(* Request::apply called on its own                                        *)
(***************************************************************************)
\* what a field of a request may hold: text with a placeholder, a
\* placeholder whose value is placeholder text, plain text
FieldTexts == {<<"p", "$", "{", "u", "}">>, <<"$", "{", " ", "e", " ", "}">>, <<"G", "E", "T">>}

\* the body variants: none, form, raw text, raw file, multipart with a text
\* field and a file field
Bodies ==
    {NoBody}
    \cup {[t |-> "form", data |-> (<<"k">> :> x)] : x \in FieldTexts}
    \cup {[t |-> "raw", from |-> [t |-> kind, v |-> x]] :
             kind \in {"text", "file"}, x \in FieldTexts}
    \cup {[t |-> "multipart",
           data |-> (<<"k">> :> [t |-> "text", v |-> x]) @@ (<<"f">> :> [t |-> "file", v |-> y])] :
             x \in FieldTexts, y \in FieldTexts}

RenderRequests ==
    {[description |-> d, url |-> u, method |-> m, headers |-> (<<"h">> :> h),
      query_parameters |-> (<<"q">> :> q), body |-> b] :
         d \in FieldTexts, u \in FieldTexts, m \in FieldTexts, h \in FieldTexts,
         q \in FieldTexts, b \in Bodies}

RenderInit ==
    /\ command = "render"
    /\ input \in [fn : {"Request::apply"}, request : RenderRequests, env : Envs]
    /\ output = NoOutput
    /\ CommandsIdle

\* Request::apply(&mut self, ..): the request after the call
RenderCall ==
    /\ command = "render"
    /\ output = NoOutput
    /\ output' = Some(ApplyRequest(NewApplicator(input.env.context, input.env.responses),
                                   input.request))
    /\ CallFrame

\* the resolver and the rendering of a request, each called on its own
SpecResolver == (ApplyInit \/ RenderInit) /\ [][ApplyNext \/ RenderCall]_vars

(***************************************************************************)
(* Request::request called on its own                                      *)
(***************************************************************************)
\* method strings: the four of the match, one more HTTP method, a lower-case
\* spelling and the empty string
Methods == {<<"G", "E", "T">>, <<"P", "O", "S", "T">>, <<"P", "U", "T">>,
            <<"D", "E", "L", "E", "T", "E">>, <<"P", "A", "T", "C", "H">>,
            <<"g", "e", "t">>, <<>>}

FilePath == <<"f">>

\* one body of each variant
ExecBodies ==
    {NoBody,
     [t |-> "form", data |-> (<<"k">> :> <<"v">>)],
     [t |-> "raw", from |-> [t |-> "text", v |-> <<"v">>]],
     [t |-> "raw", from |-> [t |-> "file", v |-> FilePath]],
     [t |-> "multipart",
      data |-> (<<"k">> :> [t |-> "text", v |-> <<"v">>])
               @@ (<<"f">> :> [t |-> "file", v |-> FilePath])]}

ExecRequests ==
    {[description |-> <<>>, url |-> <<"/", "a">>, method |-> m, headers |-> <<>>,
      query_parameters |-> <<>>, body |-> b] : m \in Methods, b \in ExecBodies}

\* the paths read_to_string and File::open are called with
FilesOf(body) ==
    CASE body.t = "raw" -> IF body.from.t = "file" THEN {body.from.v} ELSE {}
      [] body.t = "multipart" ->
             {body.data[k].v : k \in {j \in DOMAIN body.data : body.data[j].t = "file"}}
      [] OTHER -> {}

RequestErr(kind, data) == [t |-> "err", e |-> kind, v |-> data]

\* input.fs: the files that can be read
ExecuteInit ==
    /\ command = "execute"
    /\ input \in [fn : {"Request::request"}, request : ExecRequests, fs : SUBSET {FilePath}]
    /\ output = NoOutput
    /\ CommandsIdle

ExecuteFrame ==
    UNCHANGED <<command, requests, err, test, results, screen, names, app, step, assert,
                resp, cache, benchVars, input, cfgVars>>

\* lines 119-169: the builder is made from the method, headers, query and
\* body, and the call is sent
RequestSend ==
    /\ command = "execute"
    /\ pc = "call"
    /\ LET request == input.request
       IN  IF ~MethodSupported(request)
           THEN /\ output' = RequestErr("UnsupportedMethod", request.method)
                /\ pc' = "done"
                /\ UNCHANGED <<inflight, log>>
           ELSE IF ~(FilesOf(request.body) \subseteq input.fs)
           THEN /\ output' = RequestErr("Io", <<>>)
                /\ pc' = "done"
                /\ UNCHANGED <<inflight, log>>
           ELSE /\ inflight' = inflight \cup {[by |-> 0, name |-> <<>>, request |-> request]}
                /\ log' = Append(log, Event("send", 0, 0, request))
                /\ pc' = "await"
                /\ UNCHANGED output
    /\ ExecuteFrame

\* lines 169-171: the reply, or the error of the transport or of Response::from
RequestReply ==
    /\ command = "execute"
    /\ pc = "await"
    /\ \E call \in inflight, outcome \in HttpOutcomes :
        /\ inflight' = inflight \ {call}
        /\ log' = Append(log, Event("recv", 0, 0, outcome.v))
        /\ output' = IF outcome.t = "err" THEN RequestErr("Http", <<>>) ELSE outcome
    /\ pc' = "done"
    /\ ExecuteFrame

ExecuteNext == RequestSend \/ RequestReply

SpecExecute == ExecuteInit /\ [][ExecuteNext]_vars

(***************************************************************************)
(* Assert::execute called on its own                                       *)
(***************************************************************************)
\* header keys: the key of the reply, the same in upper case, another
HeaderKeys == {<<"k">>, <<"K">>, <<"x">>}

\* dot paths into the body: some resolve in BodyR, the others do not
BodyKeys == {<<"a", ".", "b">>, <<"l", ".", "1">>, <<"n">>, <<"0">>,
             <<"a", ".", "c">>, <<"A", ".", "b">>, <<"l", ".", "2">>, <<"l", ".", "b">>,
             <<"a", ".", "b", ".", "c">>, <<"z">>, <<>>, <<"a", ".">>}

AssertValues == {<<"x">>, <<"v">>, <<>>}

HeaderAsserts ==
    [type : {"header_contains", "header_equals"}, key : HeaderKeys, value : AssertValues]

BodyAsserts ==
    [type : {"contains", "equals", "not_equals", "has_prefix", "has_suffix", "regex"},
     key : BodyKeys, value : AssertValues]

Asserts == HeaderAsserts \cup BodyAsserts \cup {AssertStatus}

\* replies: a JSON body with a header, a body that is not JSON, no header
AssertResponses ==
    {[status_code |-> 200, headers |-> (<<"k">> :> <<"v">>), body |-> BodyR],
     [status_code |-> 200, headers |-> (<<"k">> :> <<"v">>), body |-> NotJson],
     [status_code |-> 404, headers |-> <<>>, body |-> BodyR]}

AssertInit ==
    /\ command = "assert"
    /\ input \in [fn : {"Assert::execute"}, assert : Asserts, response : AssertResponses]
    /\ output = NoOutput
    /\ CommandsIdle

AssertExecuteCall ==
    /\ command = "assert"
    /\ output = NoOutput
    /\ output' = Some(AssertExecute(input.assert, input.response))
    /\ CallFrame

SpecAssert == AssertInit /\ [][AssertExecuteCall]_vars

(***************************************************************************)
(* Config::get_merge_contexts called on its own                            *)
(***************************************************************************)
MaxNames == 3

\* a slip: HashMap::extend that keeps the entries it has
Extend_KeepsOld(map, other) ==
    [k \in DOMAIN map \cup DOMAIN other |-> IF k \in DOMAIN map THEN map[k] ELSE other[k]]

\* HashMap::extend: the entries of other are inserted over those of map
Extend(map, other) ==
    [k \in DOMAIN map \cup DOMAIN other |-> IF k \in DOMAIN other THEN other[k] ELSE map[k]]

ConfigErr(kind, data) == [t |-> "err", e |-> kind, v |-> data]

\* the loop of get_merge_contexts from names[i] on, context being the map
\* built so far
RECURSIVE MergeFrom(_, _, _, _)
MergeFrom(contexts, given, i, context) ==
    IF i > Len(given) THEN [t |-> "ok", v |-> context]
    ELSE IF given[i] \in DOMAIN contexts
    THEN MergeFrom(contexts, given, i + 1, Extend(context, contexts[given[i]]))
    ELSE ConfigErr("ContextNotFound", given[i])

GetMergeContexts(contexts, given) == MergeFrom(contexts, given, 1, <<>>)

\* Config.contexts: p and q share the key u, r is empty
ConfigContexts ==
    (<<"p">> :> ((<<"u">> :> <<"1">>) @@ (<<"v">> :> <<"1">>)))
    @@ (<<"q">> :> ((<<"u">> :> <<"2">>) @@ (<<"w">> :> <<"2">>)))
    @@ (<<"r">> :> <<>>)

\* the names of the command line: "m" and "n" are no contexts
ContextArgs == {<<"p">>, <<"q">>, <<"r">>, <<"m">>, <<"n">>}

MergeInit ==
    /\ command = "merge"
    /\ input \in [fn : {"Config::get_merge_contexts"}, names : SeqsUpTo(ContextArgs, MaxNames)]
    /\ output = NoOutput
    /\ CommandsIdle

GetMergeContextsCall ==
    /\ command = "merge"
    /\ output = NoOutput
    /\ output' = GetMergeContexts(ConfigContexts, input.names)
    /\ CallFrame

SpecMerge == MergeInit /\ [][GetMergeContextsCall]_vars

(***************************************************************************)
(* TestResults::complete called on its own                                 *)
(***************************************************************************)
MaxChildren == 2

Node(name, state, children) == [name |-> name, state |-> state, children |-> children]

\* assertion leaves as a run leaves them
LeafNodes == {Node(<<"a">>, s, <<>>) : s \in {Passed, Failed("assert failed")}}

\* the states a step or the root may hold before the call
StatesBefore == {NotRun, Passed, Failed("x")}

StepNodes ==
    {Node(<<"s">>, s, c) : s \in StatesBefore, c \in SeqsUpTo(LeafNodes, MaxChildren)}

RootNodes ==
    {Node(TestName, s, c) : s \in StatesBefore, c \in SeqsUpTo(StepNodes, MaxChildren)}

CompleteInit ==
    /\ command = "complete"
    /\ input \in [fn : {"TestResults::complete"}, tree : RootNodes]
    /\ output = NoOutput
    /\ CommandsIdle

CompleteCall ==
    /\ command = "complete"
    /\ output = NoOutput
    /\ output' = Some(Complete(input.tree))
    /\ CallFrame

SpecComplete == CompleteInit /\ [][CompleteCall]_vars

(***************************************************************************)
(* The statistics of the benchmark called on their own                     *)
(***************************************************************************)
MaxDurations == 10

MaxIterations == 6

\* iter().sum::<Duration>() in nanoseconds
RECURSIVE SumOf(_)
SumOf(ds) == IF ds = <<>> THEN 0 ELSE Head(ds) + SumOf(Tail(ds))

\* the sum of the squares of the distances to mean
RECURSIVE SumSquares(_, _)
SumSquares(ds, mean) ==
    IF ds = <<>> THEN 0
    ELSE (Head(ds) - mean) * (Head(ds) - mean) + SumSquares(Tail(ds), mean)

\* (sum / total as f64).sqrt() as u64: the square root, cut to a whole number
SqrtOfRatio(sum, total) ==
    CHOOSE r \in 0..sum : r * r * total <= sum /\ sum < (r + 1) * (r + 1) * total



\* lines 317-318, 327: number * benchmarks.len()
Divisor(ds, total) == total

\* lines 317-335: mean, standard deviation, fastest and slowest; dividing a
\* Duration by 0 panics, and so does unwrap() on the minimum of no durations
Statistics(ds, total) ==
    IF Divisor(ds, total) = 0 THEN Panic
    ELSE LET mean == SumOf(ds) \div Divisor(ds, total)
             set == {ds[i] : i \in 1..Len(ds)}
         IN  IF ds = <<>> THEN Panic
             ELSE [mean |-> mean,
                   std_dev |-> SqrtOfRatio(SumSquares(ds, mean), Divisor(ds, total)),
                   fastest |-> Min(set),
                   slowest |-> Max(set)]

\* Vec::sort: x put into the sorted list s
RECURSIVE Insert(_, _)
Insert(s, x) ==
    IF s = <<>> THEN <<x>>
    ELSE IF x <= Head(s) THEN <<x>> \o s
    ELSE <<Head(s)>> \o Insert(Tail(s), x)

RECURSIVE Sort(_)
Sort(ds) == IF ds = <<>> THEN <<>> ELSE Insert(Sort(Tail(ds)), Head(ds))

\* line 341
Percents == <<99, 95, 90, 75, 50, 25, 10>>

\* a slip: the index is rounded up
PercentileIndex_RoundedUp(len, p) == (len * p + 99) \div 100

\* line 343: durations.len() * p / 100
PercentileIndex(len, p) == (len * p) \div 100

\* lines 339-344: the durations are sorted and indexed; an index that is not
\* in the list panics
Percentiles(ds) ==
    LET sorted == Sort(ds)
    IN  IF \E k \in 1..Len(Percents) : PercentileIndex(Len(ds), Percents[k]) >= Len(ds)
        THEN Panic
        ELSE [k \in 1..Len(Percents) |->
                 sorted[PercentileIndex(Len(ds), Percents[k]) + 1]]



\* line 374
BinSize(min, max, num_bins) == (max - min) \div num_bins

\* lines 377-383: the bin of every value is counted
BinOf(value, min, bin_size, num_bins) ==
    IF (value - min) \div bin_size >= num_bins THEN num_bins - 1
    ELSE (value - min) \div bin_size

\* histogram: unwrap() on the minimum of no values panics, and so does the
\* division by a bin size of 0; bins are counted from 0
Histogram(values, num_bins) ==
    IF values = <<>> THEN Panic
    ELSE LET set == {values[i] : i \in 1..Len(values)}
             min == Min(set)
             max == Max(set)
             bin_size == BinSize(min, max, num_bins)
         IN  IF bin_size = 0 THEN Panic
             ELSE [bin_ranges |-> [b \in 0..(num_bins - 1) |->
                                      <<min + b * bin_size, min + b * bin_size + bin_size>>],
                   bins |-> [b \in 0..(num_bins - 1) |->
                                Cardinality({i \in 1..Len(values) :
                                    BinOf(values[i], min, bin_size, num_bins) = b})]]

\* the durations a run may have recorded, in nanoseconds: rising, falling,
\* all equal, two values in turn, a range narrower than the bins are many
DurationLists ==
    UNION {{[i \in 1..n |-> 7 * i], [i \in 1..n |-> 7 * (n + 1 - i)], [i \in 1..n |-> 5],
            [i \in 1..n |-> IF i % 2 = 1 THEN 20 ELSE 1], [i \in 1..n |-> 3 + (i % 3)]} :
           n \in 0..MaxDurations}

\* line 354: the histogram of the report has 10 bins
NumBins == {2, 10}

\* the durations recorded are no more than the calls made
StatsInit ==
    /\ command = "statistics"
    /\ input \in [fn : {"statistics", "percentiles", "histogram"}, durations : DurationLists,
                  number : 0..MaxIterations, benchmarks : 0..MaxRequests, num_bins : NumBins]
    /\ Len(input.durations) <= input.number * input.benchmarks
    /\ input.fn # "histogram" => input.num_bins = 10
    /\ output = NoOutput
    /\ CommandsIdle

StatisticsCall ==
    /\ command = "statistics"
    /\ input.fn = "statistics"
    /\ output = NoOutput
    /\ output' = Statistics(input.durations, input.number * input.benchmarks)
    /\ CallFrame

PercentilesCall ==
    /\ command = "statistics"
    /\ input.fn = "percentiles"
    /\ output = NoOutput
    /\ output' = Percentiles(input.durations)
    /\ CallFrame

HistogramCall ==
    /\ command = "statistics"
    /\ input.fn = "histogram"
    /\ output = NoOutput
    /\ output' = Histogram(Sort(input.durations), input.num_bins)
    /\ CallFrame

StatsNext == StatisticsCall \/ PercentilesCall \/ HistogramCall

SpecStats == StatsInit /\ [][StatsNext]_vars

(***************************************************************************)
(* Properties of the test run                                              *)
(***************************************************************************)
IsFailed(node) == node.state.kind = "Failed"

RECURSIVE HasFailedDescendant(_)
HasFailedDescendant(node) ==
    \E i \in 1..Len(node.children) :
        IsFailed(node.children[i]) \/ HasFailedDescendant(node.children[i])

\* the root and every step with children
NonLeafNodes(tree) ==
    {n \in {tree} \cup {tree.children[i] : i \in 1..Len(tree.children)} :
        Len(n.children) > 0}

\* C1: when Test::execute has returned its tree, every non-leaf node (each
\* step, the root) is Failed if and only if one of its descendants is Failed,
\* and Passed otherwise.
C1_ParentFailedIffDescendantFailed ==
    pc = "ok" =>
        \A n \in NonLeafNodes(results) :
            IF HasFailedDescendant(n) THEN IsFailed(n) ELSE n.state = Passed

\* step names are distinct, and assertion names are distinct within a step
DistinctNames(t) ==
    /\ \A i, k \in 1..Len(t.steps) : t.steps[i].name = t.steps[k].name => i = k
    /\ \A i \in 1..Len(t.steps) : \A j, m \in 1..Len(t.steps[i].asserts) :
          AssertName(t.steps[i].asserts[j]) = AssertName(t.steps[i].asserts[m]) => j = m

\* the operations of the log, without their data
LogOps == [i \in 1..Len(log) |-> <<log[i].op, log[i].step, log[i].index>>]

\* the operations of a complete run of the steps from k on, in program order
RECURSIVE ProgramOrder(_, _)
ProgramOrder(t, k) ==
    IF k > Len(t.steps) THEN <<>>
    ELSE <<<<"send", k, 0>>, <<"recv", k, 0>>>>
         \o [j \in 1..Len(t.steps[k].asserts) |-> <<"assert", k, j>>]
         \o ProgramOrder(t, k + 1)

IsPrefix(p, q) == Len(p) <= Len(q) /\ SubSeq(q, 1, Len(p)) = p

\* the response the log holds for step k
ReceivedAt(k) ==
    (CHOOSE e \in {log[i] : i \in 1..Len(log)} : e.op = "recv" /\ e.step = k).data

\* the state the outcome of assertion j of step k asks for, computed from the
\* response of that step alone
OwnState(k, j) ==
    LET outcome == AssertExecute(test.steps[k].asserts[j], ReceivedAt(k))
    IN  IF outcome = Ok THEN Passed ELSE Failed(outcome.e)

\* this step evaluated an assertion and the assertion failed
FailedAssertStep ==
    /\ Len(log') = Len(log) + 1
    /\ log'[Len(log')].op = "assert"
    /\ log'[Len(log')].data # Ok

\* a failed assertion leaves the run going: only the redraw that follows it
\* can end the run there
GoesOnAfterFailure ==
    FailedAssertStep => (pc' = "assert" \/ (pc' = "err" /\ err' = "TerminalError"))

\* the run does not end in a panic; a finished run has evaluated every
\* assertion of every step, and each leaf holds the state of its own outcome
EveryAssertionCounted ==
    /\ pc # "panic"
    /\ pc = "ok" =>
          /\ LogOps = ProgramOrder(test, 1)
          /\ \A k \in 1..Len(test.steps) : \A j \in 1..Len(test.steps[k].asserts) :
                results.children[k].children[j].state = OwnState(k, j)

\* C4 as stated, for every test: a failing assertion never stops the run,
\* every assertion of every step is evaluated, every leaf ends Passed or
\* Failed by its own outcome, and a tree is returned.
C4_AssertionFailureNeverStops ==
    /\ [](command = "test" => EveryAssertionCounted)
    /\ [][command = "test" => GoesOnAfterFailure]_vars

\* C4 as amended: the same for the tests whose step names are distinct and
\* whose assertion names are distinct within each step.
C4_AssertionFailureNeverStops_DistinctNames ==
    /\ []((command = "test" /\ DistinctNames(test)) => EveryAssertionCounted)
    /\ [][(command = "test" /\ DistinctNames(test)) => GoesOnAfterFailure]_vars

\* a finished two-step run with distinct names where an assertion of step 1
\* failed, a later assertion of step 1 passed and step 2 was asserted on
C4_Witness ==
    /\ command = "test"
    /\ pc = "ok"
    /\ DistinctNames(test)
    /\ Len(test.steps) = 2
    /\ \E i, j, m \in 1..Len(log) :
          /\ i < j /\ j < m
          /\ log[i].op = "assert" /\ log[i].step = 1 /\ log[i].data # Ok
          /\ log[j].op = "assert" /\ log[j].step = 1 /\ log[j].data = Ok
          /\ log[m].op = "assert" /\ log[m].step = 2

\* the node update reaches from the root by path: at each level the first
\* child of that name
RECURSIVE NodeAt(_, _)
NodeAt(node, path) ==
    IF Len(path) = 0 THEN node
    ELSE LET i == CHOOSE k \in 1..Len(node.children) :
                     /\ node.children[k].name = path[1]
                     /\ \A m \in 1..(k - 1) : node.children[m].name # path[1]
         IN  NodeAt(node.children[i], Tail(path))

\* C5: the sends, replies and assertion evaluations of a test run happen in
\* declared order (the request of step k is sent only after every assertion
\* of step k-1 was evaluated and recorded in the tree), and at most one HTTP
\* call is in flight.
C5_StrictlySequential ==
    command = "test" =>
        /\ IsPrefix(LogOps, ProgramOrder(test, 1))
        /\ Cardinality(inflight) <= 1
        /\ results # NoResults =>
              \A i \in 1..Len(log) : log[i].op = "assert" =>
                  NodeAt(results,
                         <<test.steps[log[i].step].name,
                           AssertName(test.steps[log[i].step].asserts[log[i].index])>>
                        ).state.kind \in {"Passed", "Failed"}

\* the request of step 2 is in flight after the three assertions of step 1
C5_Witness ==
    /\ command = "test"
    /\ pc = "await"
    /\ step = 2
    /\ Len(test.steps[1].asserts) = 3
    /\ Cardinality(inflight) = 1

\* C7: a step whose request is not configured, or whose call fails, ends the
\* run with that error at once: no assertion of the step was evaluated, no
\* later step was sent, the call was sent at most once, no tree is returned
\* and nothing further happens.
C7_RequestErrorAborts ==
    (command = "test" /\ pc = "err" /\ err \in {"RequestNotFound", "RequestError"}) =>
        /\ results = NoResults
        /\ inflight = {}
        /\ \A i \in 1..Len(log) :
              /\ log[i].step <= step
              /\ log[i].step = step => log[i].op = "send"
        /\ Cardinality({i \in 1..Len(log) : log[i].step = step}) <= 1
        /\ ~ENABLED TestNext

\* the call of step 2 failed after step 1 ran with its assertions
C7_Witness ==
    /\ command = "test"
    /\ pc = "err"
    /\ err = "RequestError"
    /\ step = 2
    /\ Len(test.steps[2].asserts) > 0
    /\ log[Len(log)] = Event("send", 2, 0, log[Len(log)].data)


(***************************************************************************)
(* Properties of the response store                                        *)
(***************************************************************************)
\* the request name of step (or command-line request) k
RequestOf(k) == IF command = "test" THEN test.steps[k].request ELSE requests[k]

\* the places of the log where a response for name was received
ReceivedFor(name) ==
    {i \in 1..Len(log) : log[i].op = "recv" /\ RequestOf(log[i].step) = name}

\* the newest response for name: the last one received, else the loaded one
Newest(name) ==
    LET at == ReceivedFor(name)
    IN  IF at # {} THEN Some(log[CHOOSE i \in at : \A m \in at : m <= i].data)
        ELSE IF name \in DOMAIN ConfigResponses THEN Some(ConfigResponses[name])
        ELSE None

\* the text of the "id" field of a reply of the model's server
IdOf(response) == response.body.v[Str_id].v

Indices == 0..(number - 1)

\* every worker task has returned
AllExited == \A w \in Workers : wpc[w] = "exited"

\* the workers that are inside an iteration
Busy == {w \in Workers : wpc[w] \notin {"claim", "exited"}}

\* C2: under every interleaving the indices whose request list was started
\* are exactly the indices below min(count, number), each started once and by
\* one worker only, each finished at most once; when every worker has exited
\* every index of 0..number-1 was started once and finished once.
C2_EachIndexRunExactlyOnce ==
    command = "benchmark" =>
        /\ DOMAIN started = {k \in Indices : k < count}
        /\ \A k \in DOMAIN started : started[k] = 1
        /\ DOMAIN finished \subseteq DOMAIN started
        /\ \A k \in DOMAIN finished : finished[k] = 1
        /\ \A w \in Busy : wi[w] \in (DOMAIN started) \ (DOMAIN finished)
        /\ \A w1 \in Busy, w2 \in Busy : w1 # w2 => wi[w1] # wi[w2]
        /\ AllExited => DOMAIN started = Indices /\ DOMAIN finished = Indices

\* two workers have exited after both indices of number = 2 were run
C2_Witness ==
    /\ command = "benchmark"
    /\ AllExited
    /\ number >= 2
    /\ parallel >= 2
    /\ requests # <<>>
    /\ DOMAIN finished = Indices
    /\ bar = number

\* the store the claim describes: the loaded responses, and over them the
\* responses the worker has received in this iteration
RECURSIVE Captured(_, _, _)
Captured(store, outs, j) ==
    IF j > Len(outs) THEN store
    ELSE Captured(IF outs[j].t = "ok" THEN AddResponse(store, requests[j], outs[j].v)
                  ELSE store,
                  outs, j + 1)

\* C3: a request a worker has in flight was rendered against the loaded
\* responses overlaid with the responses that worker received earlier in the
\* same iteration, and the worker's store holds nothing but loaded responses
\* and responses of its own.
C3_LaterRequestSeesEarlierResponses ==
    command = "benchmark" =>
        \A w \in Workers :
            /\ \A call \in inflight :
                  call.by = w =>
                      call.request =
                          ApplyRequest(Captured(NewApplicator(Context, ConfigResponses),
                                                wout[w], 1),
                                       ConfigRequests[call.name])
            /\ wapp[w] # NoApplicator =>
                  \A n \in DOMAIN wapp[w].responses :
                      \/ /\ n \in DOMAIN ConfigResponses
                         /\ wapp[w].responses[n] = ConfigResponses[n]
                      \/ \E j \in 1..Len(wout[w]) :
                            /\ requests[j] = n
                            /\ wout[w][j].t = "ok"
                            /\ wout[w][j].v = wapp[w].responses[n]

Sum(f) ==
    LET RECURSIVE Add(_)
        Add(S) == IF S = {} THEN 0
                  ELSE LET x == CHOOSE y \in S : TRUE IN f[x] + Add(S \ {x})
    IN  Add(DOMAIN f)

\* a step in which a call of worker w fails
FailedCall(w) ==
    /\ w \in Workers
    /\ wpc[w] \in {"request", "await"}
    /\ Len(wout'[w]) = Len(wout[w]) + 1
    /\ wout'[w][Len(wout'[w])].t = "err"

\* C8: a call that fails leaves the status-code counts and the durations as
\* they are and moves its worker on to the next request of the list; every
\* reply is counted once and timed once (a worker between the two locks has
\* counted and not yet timed), and when every worker has exited the number of
\* durations, the sum of the counts and the number of replies are the same,
\* every request of every iteration having been called once.
C8_FailedCallsAreSkipped ==
    /\ [](command = "benchmark" =>
            /\ Sum(status_codes) + Cardinality({w \in Workers : wpc[w] = "lock_status"})
                   = tally.replies
            /\ Len(durations)
                   + Cardinality({w \in Workers : wpc[w] \in {"lock_status", "lock_durations"}})
                   = tally.replies
            /\ AllExited =>
                  /\ Len(durations) = Sum(status_codes)
                  /\ Len(durations) = tally.replies
                  /\ tally.calls = number * Len(requests)
                  /\ bar = number)
    /\ [][\A w \in 1..MaxParallel :
             FailedCall(w) =>
                 /\ status_codes' = status_codes
                 /\ durations' = durations
                 /\ wr'[w] = wr[w] + 1
                 /\ wpc'[w] = "request"]_vars

\* every worker has exited after calls that failed and calls that succeeded
C8_Witness ==
    /\ command = "benchmark"
    /\ AllExited
    /\ number >= 2
    /\ tally.replies >= 1
    /\ tally.calls > tally.replies
    /\ Len(durations) = tally.replies

\* a step in which worker w returns from its task
Exits(w) == w \in Workers /\ wpc[w] # "exited" /\ wpc'[w] = "exited"

\* C9: with every call returning, every worker exits in the end; a worker
\* exits by a claim of an index >= number and by nothing else, such a claim
\* starts nothing, the counter stands at number + parallel once all have
\* exited, and main reaches the statistics only then.
C9_EveryWorkerExits ==
    /\ <>(command = "benchmark" /\ AllExited)
    /\ [](AllExited => count = number + parallel)
    /\ [](pc \in {"report", "ok", "panic"} => AllExited)
    /\ [][\A w \in 1..MaxParallel :
             /\ Exits(w) => /\ wpc[w] = "claim"
                            /\ count >= number
                            /\ count' = count + 1
                            /\ started' = started
                            /\ inflight' = inflight
             /\ (w \in Workers /\ wpc[w] = "claim" /\ count >= number /\ count' # count
                     /\ wpc'[w] # wpc[w])
                    => wpc'[w] = "exited"]_vars

\* the statistics were printed after two workers exited, the counter at N + P
C9_Witness ==
    /\ command = "benchmark"
    /\ pc = "ok"
    /\ AllExited
    /\ parallel >= 2
    /\ number >= 1
    /\ count = number + parallel

\* the workers whose call has not returned
Awaiting == {w \in Workers : wpc[w] = "await"}

\* C10: whether or not calls return, as long as some worker is left whose
\* call is not outstanding the run settles with every index either finished
\* or held by a worker whose call has not returned, and with every worker
\* exited or awaiting its call; a worker that awaits a call holds no lock, and
\* a lock that is held is held by a worker that needs nothing but the locks
\* to release it.
C10_HungCallBlocksOnlyItsWorker ==
    /\ <>[]((Workers \ Awaiting # {}) =>
                \A k \in Indices :
                    \/ k \in DOMAIN finished
                    \/ \E w \in Awaiting : wi[w] = k)
    /\ <>[](\A w \in Workers : wpc[w] \in {"await", "exited"})
    /\ [](\A w \in Awaiting : lock_status # w /\ lock_durations # w)
    /\ [](lock_status # 0 => wpc[lock_status] \in {"lock_durations", "unlock"})
    /\ [](lock_durations # 0 => wpc[lock_durations] = "unlock")

\* the call of one worker has not returned; the other worker has run the
\* other index and exited
C10_Witness ==
    /\ command = "benchmark"
    /\ number >= 2
    /\ parallel >= 2
    /\ \E h \in Workers :
          /\ wpc[h] = "await"
          /\ wi[h] = 0
          /\ \A w \in Workers \ {h} : wpc[w] = "exited"
          /\ DOMAIN finished = Indices \ {0}
          /\ tally.replies >= 1

(***************************************************************************)
(* Properties of the resolver                                              *)
(***************************************************************************)
\* the resolver the call is made on, applied to s
Resolve(fn, env, s) ==
    IF fn = "Applicator::apply"
    THEN Apply(NewApplicator(env.context, env.responses), s)
    ELSE ConfigApply(env.responses, env.context, s)

\* the call has returned
Returned == command = "apply" /\ output # NoOutput

\* the pieces with the whitespace of every placeholder taken out
RECURSIVE Bare(_)
Bare(pieces) ==
    IF pieces = <<>> THEN <<>>
    ELSE <<[Head(pieces) EXCEPT !.left = <<>>, !.right = <<>>]>> \o Bare(Tail(pieces))

\* C11: whatever whitespace stands between "${" and the name and between the
\* name and "}", the template resolves to what it resolves to with every
\* placeholder written as ${name}.
C11_InteriorWhitespaceIsIgnored ==
    Returned => output.v = Resolve(input.fn, input.env, Text(Bare(input.pieces)))

\* "${ u<tab><space>}" has resolved to x
C11_Witness ==
    /\ Returned
    /\ input.env = FullEnv
    /\ input.pieces = <<Piece("var", <<>>, <<" ">>, Name_u, <<"\t", " ">>)>>
    /\ output.v = <<"x">>

\* path has the form NAME.PATH with NAME a stored response
Stored(path, env) ==
    \E n \in DOMAIN env.responses :
        Len(path) > Len(n) /\ SubSeq(path, 1, Len(n) + 1) = n \o <<".">>

\* the name of the placeholder is in neither the context nor the store
AbsentPiece(p, env) ==
    /\ p.kind = "var"
    /\ IF StartsWith(p.name, ResponsePrefix)
       THEN ~Stored(SubSeq(p.name, Len(ResponsePrefix) + 1, Len(p.name)), env)
       ELSE p.name \notin DOMAIN env.context

\* the literal pieces, in order
Literals(pieces) ==
    LET IsLit(p) == p.kind = "lit"
    IN  SelectSeq(pieces, IsLit)

\* C12: the resolver always returns a string; when the name of every
\* placeholder of the template is absent (from the context, or as a response
\* name from the store, "${response.}" and "${response.NAME}" included) the
\* string is the literal text alone, every placeholder having become empty.
C12_AbsentNamesResolveToEmpty ==
    Returned =>
        /\ output.t = "some"
        /\ DOMAIN output.v = 1..Len(output.v)
        /\ (\A i \in 1..Len(input.pieces) :
                input.pieces[i].kind = "var" => AbsentPiece(input.pieces[i], input.env))
           => output.v = Text(Literals(input.pieces))

\* "H${response.}" has resolved to "H" with response "r" in the store
C12_Witness ==
    /\ Returned
    /\ input.env = FullEnv
    /\ input.pieces = <<Lit(<<"H">>), Piece("var", <<>>, <<>>, Str_response, <<>>)>>
    /\ output.v = <<"H">>

\* what the walk through {"a":{"b":"x"},"l":["p","q"],"0":"z","n":7,
\* "q":"\"","p":"${u}"} gives for each path of the inputs, worked out by hand:
\* the JSON text of the leaf without the quotes that enclose it, and nothing
\* where a step is missing ("0" is a number and selects no field)
PathOracle ==
    (<<>> :> <<>>)
    @@ (<<"r">> :> <<>>)
    @@ (<<"r", ".">> :> <<>>)
    @@ (<<"r", ".", "a", ".", "b">> :> <<"x">>)
    @@ (<<"r", ".", "a", ".", "c">> :> <<>>)
    @@ (<<"r", ".", "l", ".", "1">> :> <<"q">>)
    @@ (<<"r", ".", "l", ".", "2">> :> <<>>)
    @@ (<<"r", ".", "l", ".", "b">> :> <<>>)
    @@ (<<"r", ".", "0">> :> <<>>)
    @@ (<<"r", ".", "n">> :> <<"7">>)
    @@ (<<"r", ".", "q">> :> <<"\\", "\"">>)
    @@ (<<"r", ".", "p">> :> <<"$", "{", "u", "}">>)
    @@ (<<"r", ".", "a", ".", "b", ".", "c">> :> <<>>)
    @@ (<<"t", ".", "a">> :> <<>>)
    @@ (<<"z", ".", "a">> :> <<>>)

\* the pieces are placeholders of responses, all of them
ResponsePieces(pieces) ==
    \A i \in 1..Len(pieces) :
        pieces[i].kind = "var" /\ StartsWith(pieces[i].name, ResponsePrefix)

RECURSIVE Walked(_, _)
Walked(pieces, env) ==
    IF pieces = <<>> THEN <<>>
    ELSE (IF env = EmptyEnv THEN <<>>
          ELSE PathOracle[SubSeq(Head(pieces).name, Len(ResponsePrefix) + 1,
                                 Len(Head(pieces).name))])
         \o Walked(Tail(pieces), env)

\* C13: a placeholder ${response.NAME.PATH} resolves to the string form of
\* the leaf the path leads to in the JSON body of NAME, without its
\* enclosing quotes, and to nothing when NAME is not stored, the body is
\* not JSON or a step of the path is missing.
C13_ResponsePathResolvesToLeaf ==
    (Returned /\ ResponsePieces(input.pieces))
        => output.v = Walked(input.pieces, input.env)

\* every piece in its place: literal text as it is, a placeholder as what
\* it resolves to on its own
RECURSIVE PieceByPiece(_, _, _)
PieceByPiece(fn, env, pieces) ==
    IF pieces = <<>> THEN <<>>
    ELSE (IF Head(pieces).kind = "lit" THEN Head(pieces).text
          ELSE Resolve(fn, env, PieceText(Head(pieces))))
         \o PieceByPiece(fn, env, Tail(pieces))

HeldText(p, env) ==
    \/ p.name \in DOMAIN env.context
    \/ env = FullEnv /\ p.name = Str_response \o <<"r", ".", "p">>

\* the text a piece stands for, the held value taken as it is
RECURSIVE Verbatim(_, _)
Verbatim(pieces, env) ==
    IF pieces = <<>> THEN <<>>
    ELSE LET p == Head(pieces)
         IN  (IF p.kind = "lit" THEN p.text
              ELSE IF p.name \in DOMAIN env.context THEN env.context[p.name]
              ELSE <<"$", "{", "u", "}">>)
             \o Verbatim(Tail(pieces), env)

\* what a field of a request is after one resolution
FieldOracle(text, env) ==
    CASE text = <<"p", "$", "{", "u", "}">> ->
             IF env = FullEnv THEN <<"p", "x">> ELSE <<"p">>
      [] text = <<"$", "{", " ", "e", " ", "}">> ->
             IF env = FullEnv THEN <<"$", "{", "u", "}">> ELSE <<>>
      [] OTHER -> text

(***************************************************************************)
(* Properties of Request::apply                                            *)
(***************************************************************************)
Rendered == command = "render" /\ output # NoOutput

\* the field resolved once against the context and store of the call
Once(text) == Apply(NewApplicator(input.env.context, input.env.responses), text)

\* the strings of the active body variant
BodyValues(body) ==
    CASE body.t = "none" -> <<>>
      [] body.t = "form" -> <<body.data[<<"k">>]>>
      [] body.t = "raw" -> <<body.from.v>>
      [] body.t = "multipart" -> <<body.data[<<"k">>].v, body.data[<<"f">>].v>>

\* C16: after the render the description, the URL, the method, every header
\* value, every query-parameter value and every value of the active body
\* variant is the value before the render resolved once; the variant and
\* the keys are as before.
C16_EveryFieldIsResolvedOnce ==
    Rendered =>
        LET before == input.request
            after == output.v
        IN  /\ after.description = Once(before.description)
            /\ after.url = Once(before.url)
            /\ after.method = Once(before.method)
            /\ DOMAIN after.headers = DOMAIN before.headers
            /\ \A k \in DOMAIN before.headers : after.headers[k] = Once(before.headers[k])
            /\ DOMAIN after.query_parameters = DOMAIN before.query_parameters
            /\ \A k \in DOMAIN before.query_parameters :
                  after.query_parameters[k] = Once(before.query_parameters[k])
            /\ after.body.t = before.body.t
            /\ Len(BodyValues(after.body)) = Len(BodyValues(before.body))
            /\ \A i \in 1..Len(BodyValues(before.body)) :
                  BodyValues(after.body)[i] = Once(BodyValues(before.body)[i])

\* C15: a value that itself contains placeholder text is inserted as it is
\* and not scanned again, by the resolver and by the render of a request,
\* which resolves a field it resolves once and not a second time.
C15_ValuesAreInsertedVerbatim ==
    /\ (Returned /\ \A i \in DOMAIN input.pieces :
                       input.pieces[i].kind = "var" => HeldText(input.pieces[i], input.env))
           => output.v = Verbatim(input.pieces, input.env)
    /\ Rendered =>
           LET before == input.request
               after == output.v
           IN  /\ after.url = FieldOracle(before.url, input.env)
               /\ after.method = FieldOracle(before.method, input.env)
               /\ \A k \in DOMAIN before.headers :
                     after.headers[k] = FieldOracle(before.headers[k], input.env)
               /\ \A k \in DOMAIN before.query_parameters :
                     after.query_parameters[k] = FieldOracle(before.query_parameters[k], input.env)
               /\ \A i \in 1..Len(BodyValues(before.body)) :
                     BodyValues(after.body)[i] = FieldOracle(BodyValues(before.body)[i], input.env)

\* the URL "${ e }" has been rendered to the value of e, "${u}", which a
\* second resolution would turn into "x"
C15_Witness ==
    /\ Rendered
    /\ input.env = FullEnv
    /\ input.request.url = <<"$", "{", " ", "e", " ", "}">>
    /\ output.v.url = <<"$", "{", "u", "}">>
    /\ Once(output.v.url) = <<"x">>

(***************************************************************************)
(* Properties of the commands                                              *)
(***************************************************************************)
\* the store a call was rendered against
StoreOf(call) == IF call.by = 0 THEN app ELSE wapp[call.by]

FourMethods == {<<"G", "E", "T">>, <<"P", "O", "S", "T">>, <<"P", "U", "T">>,
                <<"D", "E", "L", "E", "T", "E">>}

\* the calls sent so far
Sends == Cardinality({i \in DOMAIN log : log[i].op = "send"})

Executed == command = "execute" /\ pc = "done"

\* the method is refused with its own string and nothing is sent
Refused ==
    /\ output = RequestErr("UnsupportedMethod", input.request.method)
    /\ Sends = 0

\* C18 as stated: a method other than GET, POST, PUT, DELETE is refused with
\* UnsupportedMethod and no round trip; with one of the four there is exactly
\* one round trip, and never a second.
C18_OneRoundTripOrUnsupported ==
    /\ command = "execute" => Sends <= 1
    /\ Executed => IF input.request.method \in FourMethods THEN Sends = 1 ELSE Refused

\* C18 amended: as stated, where with one of the four methods the one round
\* trip is made when every file the body names can be read; when one cannot
\* the call returns the Io error and nothing is sent.
C18_OneRoundTripWhenFilesReadable ==
    /\ command = "execute" => Sends <= 1
    /\ Executed =>
           IF input.request.method \notin FourMethods THEN Refused
           ELSE IF FilesOf(input.request.body) \subseteq input.fs
           THEN Sends = 1 /\ output.t \in {"ok", "err"} /\ (output.t = "err" => output.e = "Http")
           ELSE Sends = 0 /\ output = RequestErr("Io", <<>>)

\* "get" in lower case was refused, with the string in the error
C18_Witness ==
    /\ Executed
    /\ input.request.method = <<"g", "e", "t">>
    /\ output = RequestErr("UnsupportedMethod", <<"g", "e", "t">>)
    /\ Sends = 0

(***************************************************************************)
(* Properties of the result tree                                           *)
(***************************************************************************)
\* the names of a tree and how they are nested, without the states
RECURSIVE Shape(_)
Shape(node) ==
    [name |-> node.name,
     children |-> [i \in 1..Len(node.children) |-> Shape(node.children[i])]]

\* the shape the test declares: the test, its steps, their assertions
DeclaredShape(t) ==
    [name |-> TestName,
     children |-> [i \in 1..Len(t.steps) |->
        [name |-> t.steps[i].name,
         children |-> [j \in 1..Len(t.steps[i].asserts) |->
            [name |-> AssertName(t.steps[i].asserts[j]), children |-> <<>>]]]]]

RECURSIVE AllNotRun(_)
AllNotRun(node) ==
    /\ node.state = NotRun
    /\ \A i \in 1..Len(node.children) : AllNotRun(node.children[i])

HasTree == command = "test" /\ results # NoResults

\* C19: no request is rendered or sent before the tree is built; when the
\* first step is about to start the tree has the declared shape (the test,
\* its steps in order, their assertions in order) with every node NotRun;
\* and as long as the run has a tree its shape is the declared one: no step
\* of the run adds, removes or reorders a node.
C19_TreeHasItsShapeFromTheStart ==
    /\ []((command = "test" /\ pc = "begin") => (log = <<>> /\ inflight = {}))
    /\ []((HasTree /\ pc = "step" /\ step = 1)
             => (log = <<>> /\ inflight = {} /\ AllNotRun(results)))
    /\ [](HasTree => Shape(results) = DeclaredShape(test))
    /\ [][(HasTree /\ results' # NoResults) => Shape(results') = Shape(results)]_vars

\* a run of two steps with two assertions each has completed with a failed
\* assertion recorded, and the tree has the declared shape
C19_Witness ==
    /\ HasTree
    /\ pc = "ok"
    /\ Len(test.steps) = 2
    /\ \A i \in 1..2 : Len(test.steps[i].asserts) = 2
    /\ \E i \in 1..2 : \E j \in 1..2 : results.children[i].children[j].state.kind = "Failed"
    /\ Shape(results) = DeclaredShape(test)
    /\ Len(results.children) = 2

\* the places of the nodes of the declared tree: the root, the steps, the
\* assertions of each step
Places(t) ==
    {<<>>} \cup {<<i>> : i \in 1..Len(t.steps)}
           \cup UNION {{<<i, j>> : j \in 1..Len(t.steps[i].asserts)} : i \in 1..Len(t.steps)}

\* the state of the node at a place
StateAt(tree, place) ==
    CASE Len(place) = 0 -> tree.state
      [] Len(place) = 1 -> tree.children[place[1]].state
      [] Len(place) = 2 -> tree.children[place[1]].children[place[2]].state

Distinct == command = "test" /\ DistinctNames(test)

\* C20: in a run whose step names are distinct and whose assertion names
\* are distinct within each step, every node of the new tree is NotRun, no
\* node is ever Running, a step of the run leaves a node as it is or takes
\* it from NotRun to Passed or Failed (so a node changes at most once and
\* stays Passed or Failed), and after a successful run no node is NotRun.
C20_EachNodeChangesStateOnce ==
    /\ [][(Distinct /\ results = NoResults /\ results' # NoResults) => AllNotRun(results')]_vars
    /\ []((Distinct /\ HasTree) =>
             \A place \in Places(test) :
                 StateAt(results, place).kind \in {"NotRun", "Passed", "Failed"})
    /\ [][(Distinct /\ HasTree /\ results' # NoResults) =>
             \A place \in Places(test) :
                 \/ StateAt(results', place) = StateAt(results, place)
                 \/ /\ StateAt(results, place) = NotRun
                    /\ StateAt(results', place).kind \in {"Passed", "Failed"}]_vars
    /\ []((Distinct /\ pc = "ok") =>
             /\ results # NoResults
             /\ \A place \in Places(test) : StateAt(results, place) # NotRun)

\* a run of two steps with distinct names has completed: an assertion has
\* failed, another has passed, every step and the root are set
C20_Witness ==
    /\ Distinct
    /\ pc = "ok"
    /\ Len(test.steps) = 2
    /\ \E p, q \in Places(test) :
          /\ Len(p) = 2 /\ StateAt(results, p).kind = "Failed"
          /\ Len(q) = 2 /\ StateAt(results, q).kind = "Passed"
    /\ \A place \in Places(test) : StateAt(results, place) # NotRun

(***************************************************************************)
(* Properties of the display                                               *)
(***************************************************************************)
\* the assertions evaluated so far
Evaluated == Cardinality({i \in DOMAIN log : log[i].op = "assert"})

\* C21: in a test run the terminal shows the tree as it is whenever the run
\* goes on: a step that records an assertion ends with the terminal showing
\* the tree that holds the new leaf state, before another assertion is
\* evaluated or another request sent; and a step that meets a terminal
\* error sends nothing, evaluates no assertion beyond the one whose redraw
\* failed, and the run ends there with that error and without a tree.
C21_TreeIsRedrawnAfterEveryAssertion ==
    /\ [](HasTree => screen = results)
    /\ [][(command = "test" /\ Evaluated' > Evaluated /\ pc' # "err")
             => (results' # NoResults /\ screen' = results' /\ Evaluated' = Evaluated + 1
                 /\ inflight' = inflight)]_vars
    /\ [][(command = "test" /\ pc' = "err" /\ err' = "TerminalError")
             => (Evaluated' <= Evaluated + 1 /\ inflight' = inflight
                 /\ results' = NoResults)]_vars
    /\ [][~(command = "test" /\ pc = "err")]_vars

\* the first assertion of a step has failed and the terminal shows the
\* failed leaf while the second assertion is still to be evaluated
C21_Witness ==
    /\ HasTree
    /\ pc = "assert"
    /\ assert = 2
    /\ Len(test.steps[step].asserts) = 2
    /\ screen.children[step].children[1].state.kind = "Failed"
    /\ screen.children[step].children[2].state = NotRun
    /\ screen = results

(***************************************************************************)
(* Properties of Assert::execute                                           *)
(***************************************************************************)
Asserted == command = "assert" /\ output # NoOutput

\* the dot paths that lead to a value in the body
\* {"a":{"b":"x"},"l":["p","q"],"0":"z","n":7,"q":"\"","p":"${u}"}
ResolvingKeys == {<<"a", ".", "b">>, <<"l", ".", "1">>, <<"n">>, <<"0">>}

\* the target of the assertion is not in the response
TargetMissing(a, response) ==
    CASE a.type \in {"header_contains", "header_equals"} ->
             \A k \in DOMAIN response.headers : k # a.key
      [] a.type = "status_code" -> FALSE
      [] OTHER -> response.body = NotJson \/ a.key \notin ResolvingKeys

\* C22: an assertion whose target is not in the response fails: a header
\* assertion whose key is no key of the header map, compared exactly, and a
\* body assertion of any kind, not_equals included, whose dot path leads to
\* no value of the JSON body or whose body is not JSON.
C22_MissingTargetFails ==
    (Asserted /\ TargetMissing(input.assert, input.response))
        => (output.v.t = "err" /\ output.v # Ok)

\* not_equals on the path a.c, which the body does not have, has failed
C22_Witness ==
    /\ Asserted
    /\ input.assert = [type |-> "not_equals", key |-> <<"a", ".", "c">>, value |-> <<"x">>]
    /\ input.response.body = BodyR
    /\ output.v.t = "err"

(***************************************************************************)
(* Properties of Config::get_merge_contexts                                *)
(***************************************************************************)
Merged == command = "merge" /\ output # NoOutput

DefinedContexts == {<<"p">>, <<"q">>, <<"r">>}

\* the places of the list whose name is no context
Undefined(given) == {i \in DOMAIN given : given[i] \notin DefinedContexts}

\* the keys of the contexts named
KeysOf(given) == UNION {DOMAIN ConfigContexts[given[i]] : i \in DOMAIN given}

\* the last place of the list whose context has key k
LastWith(given, k) ==
    CHOOSE i \in DOMAIN given :
        /\ k \in DOMAIN ConfigContexts[given[i]]
        /\ \A j \in DOMAIN given : k \in DOMAIN ConfigContexts[given[j]] => j <= i

\* C23: when every name is a context the merge has the union of their keys
\* and each key has the value of the last context of the list that has it;
\* when a name is no context the merge returns ContextNotFound with a name
\* of the list that is no context, and no map.
C23_MergeIsRightBiased ==
    Merged =>
        IF Undefined(input.names) = {}
        THEN /\ output.t = "ok"
             /\ DOMAIN output.v = KeysOf(input.names)
             /\ \A k \in KeysOf(input.names) :
                   output.v[k] = ConfigContexts[input.names[LastWith(input.names, k)]][k]
        ELSE /\ output.t = "err"
             /\ output.e = "ContextNotFound"
             /\ \E i \in Undefined(input.names) : output.v = input.names[i]

\* p, q, p have been merged: u is 1 again, from the last p, w is from q
C23_Witness ==
    /\ Merged
    /\ input.names = <<<<"p">>, <<"q">>, <<"p">>>>
    /\ output.t = "ok"
    /\ output.v[<<"u">>] = <<"1">>
    /\ output.v[<<"w">>] = <<"2">>
    /\ DOMAIN output.v = {<<"u">>, <<"v">>, <<"w">>}

(***************************************************************************)
(* Properties of TestResults::complete                                     *)
(***************************************************************************)
Completed == command = "complete" /\ output # NoOutput

\* the node has children and is Failed if one of them is, Passed if none is
Derived(node) ==
    Len(node.children) > 0 =>
        IF \E i \in 1..Len(node.children) : node.children[i].state.kind = "Failed"
        THEN node.state.kind = "Failed"
        ELSE node.state = Passed

\* C24: after complete() on the root every node with children, the root and
\* each step, is Failed if one of its children is Failed and Passed if none
\* is, whatever the states before the call: a failed assertion makes its
\* step and the root Failed.
C24_CompleteIsBottomUp ==
    Completed =>
        /\ Derived(output.v)
        /\ \A i \in 1..Len(output.v.children) : Derived(output.v.children[i])

(***************************************************************************)
(* Properties of the statistics                                            *)
(***************************************************************************)
Reported(fn) == command = "statistics" /\ input.fn = fn /\ output # NoOutput

\* the mean of the recorded durations, in whole nanoseconds
RecordedMean(ds) == Sum(ds) \div Len(ds)

\* the standard deviation of the recorded durations, in whole nanoseconds
RecordedDeviation(ds) ==
    LET squares == Sum([i \in DOMAIN ds |->
                           (ds[i] - RecordedMean(ds)) * (ds[i] - RecordedMean(ds))])
    IN  CHOOSE r \in 0..squares :
            r * r * Len(ds) <= squares /\ squares < (r + 1) * (r + 1) * Len(ds)

\* C25: with at least one duration recorded the reported mean is the sum of
\* the recorded durations divided by their number, and the standard
\* deviation is that of the same durations: calls that failed count in
\* neither.
C25_MeanIsOverRecordedDurations ==
    (Reported("statistics") /\ Len(input.durations) >= 1) =>
        /\ output # Panic
        /\ output.mean = RecordedMean(input.durations)
        /\ output.std_dev = RecordedDeviation(input.durations)

\* the whole width of a slice when the range from the least to the greatest
\* duration is cut into num_bins equal slices
SliceWidth(ds, num_bins) ==
    LET set == {ds[i] : i \in DOMAIN ds}
    IN  (Max(set) - Min(set)) \div num_bins

\* the bin of a duration, counted from 0: the slice it lies in, the
\* durations at or beyond the last boundary going to the last bin
SliceOf(d, ds, num_bins) ==
    LET least == Min({ds[i] : i \in DOMAIN ds})
        slice == (d - least) \div SliceWidth(ds, num_bins)
    IN  IF slice >= num_bins THEN num_bins - 1 ELSE slice

\* C26: for a list of at least one duration and N bins the histogram has N
\* counts that add up to the length of the list, also when all durations
\* are equal or the range is narrower than N nanoseconds; and where the
\* slices have a width, each duration is counted in the bin of its slice.
C26_HistogramCountsEveryDuration ==
    (Reported("histogram") /\ Len(input.durations) >= 1) =>
        /\ output # Panic
        /\ DOMAIN output.bins = 0..(input.num_bins - 1)
        /\ Sum(output.bins) = Len(input.durations)
        /\ SliceWidth(input.durations, input.num_bins) > 0 =>
              \A b \in 0..(input.num_bins - 1) :
                  output.bins[b] =
                      Cardinality({i \in DOMAIN input.durations :
                          SliceOf(input.durations[i], input.durations, input.num_bins) = b})

\* x is the element at 0-based place k of ds sorted ascending
IsAtSortedPlace(x, ds, k) ==
    /\ \E i \in DOMAIN ds : ds[i] = x
    /\ Cardinality({i \in DOMAIN ds : ds[i] < x}) <= k
    /\ k < Cardinality({i \in DOMAIN ds : ds[i] <= x})

\* C27: for a list of L >= 1 durations and each p of 99, 95, 90, 75, 50, 25,
\* 10 the reported percentile is the element at 0-based place floor(L*p/100)
\* of the sorted list, and that place is less than L.
C27_PercentileIsSortedElementAtIndex ==
    (Reported("percentiles") /\ Len(input.durations) >= 1) =>
        /\ output # Panic
        /\ DOMAIN output = 1..7
        /\ \A k \in 1..7 :
              LET p == <<99, 95, 90, 75, 50, 25, 10>>[k]
                  L == Len(input.durations)
              IN  /\ (L * p) \div 100 < L
                  /\ IsAtSortedPlace(output[k], input.durations, (L * p) \div 100)

\* the durations 70, 63, .., 7, ten of them: the 50th percentile is 42, the
\* element at place 5 of the sorted list
C27_Witness ==
    /\ Reported("percentiles")
    /\ input.durations = [i \in 1..10 |-> 7 * (11 - i)]
    /\ output # Panic
    /\ output[5] = 42

(***************************************************************************)
(* Properties of TestResults::update                                       *)
(***************************************************************************)
\* the name of the node at a place
NameAt(tree, place) ==
    CASE Len(place) = 0 -> tree.name
      [] Len(place) = 1 -> tree.children[place[1]].name
      [] Len(place) = 2 -> tree.children[place[1]].children[place[2]].name

\* the places a step of the run has changed the state of
Changed == {place \in Places(test) : StateAt(results', place) # StateAt(results, place)}

\* an earlier sibling of the node at the place has the same name
Shadowed(tree, place) ==
    /\ Len(place) >= 1
    /\ \E k \in 1..(place[Len(place)] - 1) :
          NameAt(tree, SubSeq(place, 1, Len(place) - 1) \o <<k>>) = NameAt(tree, place)

\* the node at the place, or one above it, has an earlier sibling of its name
Unreachable(tree, place) ==
    \E n \in 1..Len(place) : Shadowed(tree, SubSeq(place, 1, n))

\* the place is the root, the first step named as the step in hand, or under
\* that step the first assertion named as the assertion in hand
Addressed(place) ==
    /\ ~Unreachable(results, place)
    /\ Len(place) >= 1 => NameAt(results, <<place[1]>>) = test.steps[step].name
    /\ Len(place) = 2 =>
          NameAt(results, place) = AssertName(test.steps[step].asserts[assert])

\* C28: a step of the run that updates the tree changes the state of at most
\* one node, the one reached from the root by taking at each level the first
\* child of the name given, and leaves the other states and the shape as
\* they are; a node behind an earlier sibling of its name, or under such a
\* node, is NotRun throughout.
C28_UpdateChangesTheFirstMatchOnly ==
    /\ [][(HasTree /\ results' # NoResults) =>
             /\ Shape(results') = Shape(results)
             /\ Cardinality(Changed) <= 1
             /\ \A place \in Changed : Addressed(place)]_vars
    /\ [](HasTree => \A place \in Places(test) :
             Unreachable(results, place) => StateAt(results, place) = NotRun)

\* two steps named s with one assertion each have run: the first step and its
\* leaf are set, the second step and its leaf are still NotRun
C28_Witness ==
    /\ HasTree
    /\ pc = "ok"
    /\ Len(test.steps) = 2
    /\ test.steps[1].name = test.steps[2].name
    /\ Len(test.steps[1].asserts) = 1
    /\ Len(test.steps[2].asserts) = 1
    /\ results.children[1].state = Passed
    /\ results.children[1].children[1].state # NotRun
    /\ results.children[2].state = NotRun
    /\ results.children[2].children[1].state = NotRun

(***************************************************************************)
(* Properties of the locks of the benchmark                                *)
(***************************************************************************)
\* worker w waits for a lock another holder has
Blocked(w) ==
    \/ wpc[w] = "lock_status" /\ lock_status # 0
    \/ wpc[w] = "lock_durations" /\ lock_durations # 0

\* the locks worker w holds
Held(w) ==
    (IF lock_status = w THEN {"status_codes"} ELSE {})
    \cup (IF lock_durations = w THEN {"durations"} ELSE {})

\* C29: a worker holds the duration lock only while it holds the status-code
\* lock, taken before it; it holds a lock only between taking the
\* status-code lock and the end of the Ok arm, so none while its call is
\* pending and none when it advances the progress bar or claims an index;
\* the report starts with every worker exited and both locks free; and a
\* worker that waits for a lock waits for a holder that is itself not
\* waiting, so no set of workers waits for each other.
C29_LocksNeverDeadlock ==
    command = "benchmark" =>
        /\ \A w \in Workers :
              /\ "durations" \in Held(w) => "status_codes" \in Held(w)
              /\ Held(w) # {} => wpc[w] \in {"lock_durations", "unlock"}
              /\ wpc[w] = "unlock" => Held(w) = {"status_codes", "durations"}
              /\ wpc[w] = "lock_durations" => Held(w) = {"status_codes"}
              /\ (\E call \in inflight : call.by = w) => Held(w) = {}
              /\ Blocked(w) => \E h \in Workers \ {w} : Held(h) # {} /\ ~Blocked(h)
        /\ lock_status \in Workers \cup {0}
        /\ lock_durations \in Workers \cup {0}
        /\ pc \in {"report", "ok", "panic"} =>
              (AllExited /\ lock_status = 0 /\ lock_durations = 0)

\* worker 1 holds both locks while worker 2 has its reply and waits for the
\* status-code lock
C29_Witness ==
    /\ command = "benchmark"
    /\ parallel = 2
    /\ wpc[1] = "unlock"
    /\ Held(1) = {"status_codes", "durations"}
    /\ wpc[2] = "lock_status"
    /\ Blocked(2)

(***************************************************************************)
(* Properties of the reporting pass                                        *)
(***************************************************************************)
\* C30: the reporting pass of a benchmark never ends in a runtime failure:
\* not when no call succeeded, not when the iterations are 0 or the request
\* list is empty, not when fewer calls succeeded than were made.
C30_ReportNeverFails ==
    command = "benchmark" => pc # "panic"


=============================================================================
